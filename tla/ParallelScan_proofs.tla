------------------------ MODULE ParallelScan_proofs -------------------------
(***************************************************************************)
(* Proofs about ParallelScan, for any number of workers, any bytes and any *)
(* sizes of chunks, lookahead and reports.                                 *)
(***************************************************************************)
EXTENDS ParallelScan, FiniteSetTheorems, SequenceTheorems, TLAPS

-----------------------------------------------------------------------------
(* Recursion over the places of a sequence.                                *)

(* Every set of numbers that is not empty has a least one.                 *)
LEMMA LeastNumber ==
    ASSUME NEW T \in SUBSET Nat, T # {}
    PROVE  \E m \in T : \A n \in T : m <= n
<1> DEFINE W == {0 .. m : m \in T}
           R == StrictSubsetOrdering(Nat)
<1>1. W \subseteq FiniteSubsetsOf(Nat) /\ W # {}
  <2>1. ASSUME NEW m \in T PROVE IsFiniteSet(0 .. m) /\ 0 .. m \subseteq Nat
    BY FS_Interval
  <2>2. QED
    BY <2>1 DEF FiniteSubsetsOf
<1>2. \E x \in W : \A y \in W : ~ (<<y, x>> \in R)
  <2>1. IsWellFoundedOn(R, FiniteSubsetsOf(Nat))
    BY FS_StrictSubsetOrderingWellFounded
  <2> HIDE DEF W, R
  <2>2. QED
    BY <1>1, <2>1, WFMin
<1>3. PICK m \in T : \A y \in W : <<y, 0 .. m>> \notin R
  BY <1>2
<1>4. ASSUME NEW n \in T, n < m PROVE FALSE
  <2>1. 0 .. n \subseteq 0 .. m /\ m \in 0 .. m /\ m \notin 0 .. n
    BY <1>4
  <2>2. <<0 .. n, 0 .. m>> \in R
    BY <2>1 DEF StrictSubsetOrdering
  <2>3. QED
    BY <1>3, <2>2
<1>5. ASSUME NEW n \in T PROVE m <= n
  <2>1. m \in Nat /\ n \in Nat /\ ~(n < m)
    BY <1>4
  <2>2. QED
    BY <2>1
<1>6. QED
  BY <1>3, <1>5, Zenon

(* Induction for a set of numbers.                                         *)
LEMMA Induction ==
    ASSUME NEW N \in Nat, NEW P, 0 \in P, \A n \in 1 .. N : n - 1 \in P => n \in P
    PROVE  \A n \in 0 .. N : n \in P
<1> DEFINE T == {n \in 0 .. N : n \notin P}
<1> SUFFICES ASSUME T # {} PROVE FALSE
  OBVIOUS
<1>1. PICK m \in T : \A n \in T : m <= n
  <2>1. T \in SUBSET Nat
    OBVIOUS
  <2> HIDE DEF T
  <2>2. QED
    BY <2>1, LeastNumber
<1>2. m \in 1 .. N /\ m - 1 \in 0 .. N /\ m - 1 \notin T
  BY <1>1
<1>3. QED
  BY <1>2

(* A value for every n is made from the one before: such a function        *)
(* exists.                                                                 *)
Iterates(f, S, a, N, h) ==
    f \in [0 .. N -> S] /\ f[0] = a /\ \A n \in 1 .. N : f[n] = h[<<f[n - 1], n>>]

LEMMA Recursion ==
    ASSUME NEW S, NEW a \in S, NEW N \in Nat, NEW h \in [S \X (1 .. N) -> S]
    PROVE  \E f : Iterates(f, S, a, N, h)
<1> DEFINE Upto(n, f) == Iterates(f, S, a, n, h)
           P == {n \in 0 .. N : \E f : Upto(n, f)}
<1>1. 0 \in P
  <2>1. Upto(0, [n \in 0 .. 0 |-> a])
    BY DEF Iterates
  <2> HIDE DEF Upto
  <2>2. QED
    BY <2>1
<1>2. ASSUME NEW n \in 1 .. N, n - 1 \in P PROVE n \in P
  <2>1. PICK f : Upto(n - 1, f)
    BY <1>2
  <2> DEFINE g == [i \in 0 .. n |-> IF i = n THEN h[<<f[n - 1], n>>] ELSE f[i]]
  <2>2. f[n - 1] \in S /\ <<f[n - 1], n>> \in S \X (1 .. N)
    BY <2>1 DEF Iterates
  <2>3. h[<<f[n - 1], n>>] \in S
    BY <2>2
  <2>4. g \in [0 .. n -> S] /\ g[0] = a
    BY <2>1, <2>3 DEF Iterates
  <2>5. ASSUME NEW i \in 1 .. n PROVE g[i] = h[<<g[i - 1], i>>]
    <3>1. CASE i = n
      <4>1. g[i] = h[<<f[n - 1], n>>] /\ g[i - 1] = f[n - 1]
        BY <3>1
      <4> HIDE DEF g
      <4>2. QED
        BY <3>1, <4>1
    <3>2. CASE i # n
      <4>1. i \in 1 .. n - 1 /\ g[i] = f[i] /\ g[i - 1] = f[i - 1]
        BY <3>2
      <4> HIDE DEF g
      <4>2. QED
        BY <2>1, <4>1 DEF Iterates
    <3>3. QED
      BY <3>1, <3>2
  <2>6. Upto(n, g)
    <3> HIDE DEF g
    <3>1. QED
      BY <2>4, <2>5 DEF Iterates
  <2> HIDE DEF Upto, g
  <2>7. QED
    BY <2>6
<1>3. N \in P
  <2> HIDE DEF P
  <2>1. QED
    BY <1>1, <1>2, Induction
<1>4. QED
  BY <1>3

-----------------------------------------------------------------------------
(* A set in order.                                                         *)

LEMMA AscendingEmpty == Ascending({}) = << >>
<1>1. Cardinality({}) = 0
  BY FS_EmptySet
<1>2. QED
  BY <1>1 DEF Ascending

(* What is above all the others comes last.                                *)
LEMMA AscendingAppend ==
    ASSUME NEW S \in SUBSET Nat, IsFiniteSet(S), NEW n \in Nat, \A i \in S : i < n
    PROVE  Ascending(S \cup {n}) = Append(Ascending(S), n)
<1> DEFINE c == Cardinality(S)
           A == [k \in 1 .. c |-> CHOOSE i \in Nth(S, k) : TRUE]
           V == {A[k] : k \in 1 .. c} \cup {n}
<1>1. n \notin S
  OBVIOUS
<1>2. c \in Nat
  BY FS_CardinalityType
<1>3. Cardinality(S \cup {n}) = c + 1
  BY <1>1, FS_AddElement
<1>4. ASSUME NEW i \in S PROVE {j \in S \cup {n} : j <= i} = {j \in S : j <= i}
  <2>1. ~(n <= i)
    OBVIOUS
  <2>2. QED
    BY <2>1, Zenon
<1>5. {j \in S \cup {n} : j <= n} = S \cup {n}
  <2>1. n <= n /\ \A i \in S : i <= n
    OBVIOUS
  <2>2. QED
    BY <2>1, Zenon
<1>6. ASSUME NEW k \in 1 .. c PROVE Nth(S \cup {n}, k) = Nth(S, k)
  <2>1. n \notin Nth(S \cup {n}, k)
    <3>1. c + 1 # k
      BY <1>2
    <3>2. n \in Nth(S \cup {n}, k) =>
             Cardinality({j \in S \cup {n} : j <= n}) = k
      BY Zenon DEF Nth
    <3>3. QED
      BY <1>3, <1>5, <3>1, <3>2, Zenon
  <2>2. ASSUME NEW i \in S PROVE i \in Nth(S \cup {n}, k) <=> i \in Nth(S, k)
    <3>1. i \in Nth(S, k) <=> i \in S /\ Cardinality({j \in S : j <= i}) = k
      BY Zenon DEF Nth
    <3>2. i \in Nth(S \cup {n}, k) <=>
             i \in S \cup {n} /\ Cardinality({j \in S \cup {n} : j <= i}) = k
      BY Zenon DEF Nth
    <3>3. QED
      BY <1>4, <3>1, <3>2, Zenon
  <2>3. Nth(S \cup {n}, k) \subseteq S \cup {n} /\ Nth(S, k) \subseteq S
    BY DEF Nth
  <2>4. QED
    BY <2>1, <2>2, <2>3, Zenon
<1>7. Nth(S \cup {n}, c + 1) = {n}
  <2>1. ASSUME NEW i \in S PROVE i \notin Nth(S \cup {n}, c + 1)
    <3> DEFINE L == {j \in S : j <= i}
    <3>1. L \subseteq S
      OBVIOUS
    <3>2. Cardinality(L) # c + 1
      <4> HIDE DEF L
      <4>1. IsFiniteSet(L) /\ Cardinality(L) <= Cardinality(S)
        BY <3>1, FS_Subset
      <4>2. Cardinality(L) \in Nat
        BY <4>1, FS_CardinalityType
      <4>3. QED
        BY <1>2, <4>1, <4>2
    <3>3. i \in Nth(S \cup {n}, c + 1) =>
             Cardinality({j \in S \cup {n} : j <= i}) = c + 1
      BY Zenon DEF Nth
    <3>4. QED
      BY <1>4, <3>2, <3>3, Zenon
  <2>2. n \in Nth(S \cup {n}, c + 1)
    <3>1. n \in S \cup {n}
      OBVIOUS
    <3>2. QED
      BY <1>3, <1>5, <3>1, Zenon DEF Nth
  <2>3. Nth(S \cup {n}, c + 1) \subseteq S \cup {n}
    BY DEF Nth
  <2>4. QED
    BY <2>1, <2>2, <2>3, Zenon
<1>8. (CHOOSE i \in Nth(S \cup {n}, c + 1) : TRUE) = n
  BY <1>7
<1>9. Ascending(S) = A /\ A \in [1 .. c -> V]
  BY DEF Ascending
<1>10. Ascending(S \cup {n}) =
          [k \in 1 .. c + 1 |-> CHOOSE i \in Nth(S \cup {n}, k) : TRUE]
  BY <1>3 DEF Ascending
<1>11. ASSUME NEW k \in 1 .. c PROVE (CHOOSE i \in Nth(S \cup {n}, k) : TRUE) = A[k]
  <2>1. A[k] = CHOOSE i \in Nth(S, k) : TRUE
    OBVIOUS
  <2> HIDE DEF A
  <2>2. QED
    BY <1>6, <2>1, Zenon
<1> HIDE DEF A, V, c
<1>12. A \in Seq(V) /\ Len(A) = c
  BY <1>2, <1>9
<1>13. Append(A, n) = [k \in 1 .. c + 1 |-> IF k <= c THEN A[k] ELSE n]
  <2>1. n \in V
    BY DEF V
  <2> DEFINE B == Append(A, n)
  <2>2. B \in Seq(V) /\ Len(B) = c + 1 /\ (\A k \in 1 .. c : B[k] = A[k]) /\ B[c + 1] = n
    BY <1>12, <2>1, AppendProperties
  <2> HIDE DEF B
  <2>3. B = [k \in 1 .. c + 1 |-> B[k]]
    BY <2>2, LenProperties
  <2>4. \A k \in 1 .. c + 1 : B[k] = IF k <= c THEN A[k] ELSE n
    BY <1>2, <2>2
  <2>5. [k \in 1 .. c + 1 |-> B[k]] = [k \in 1 .. c + 1 |-> IF k <= c THEN A[k] ELSE n]
    BY <2>4, Zenon
  <2>6. QED
    BY <2>3, <2>5, Zenon DEF B
<1>14. \A k \in 1 .. c + 1 :
          (CHOOSE i \in Nth(S \cup {n}, k) : TRUE) = IF k <= c THEN A[k] ELSE n
  <2>1. ASSUME NEW k \in 1 .. c + 1
        PROVE  (CHOOSE i \in Nth(S \cup {n}, k) : TRUE) = IF k <= c THEN A[k] ELSE n
    <3>1. k \in 1 .. c \/ (k = c + 1 /\ ~(k <= c))
      BY <1>2
    <3>2. CASE k \in 1 .. c
      <4>1. k <= c
        BY <1>2, <3>2
      <4>2. (CHOOSE i \in Nth(S \cup {n}, k) : TRUE) = A[k]
        BY <1>11, <3>2, Zenon
      <4>3. QED
        BY <4>1, <4>2, Zenon
    <3>3. CASE k = c + 1 /\ ~(k <= c)
      <4>1. Nth(S \cup {n}, k) = {n}
        BY <1>7, <3>3, Zenon
      <4>2. (CHOOSE i \in Nth(S \cup {n}, k) : TRUE) = n
        BY <4>1
      <4>3. QED
        BY <3>3, <4>2, Zenon
    <3>4. QED
      BY <3>1, <3>2, <3>3, Zenon
  <2>2. QED
    BY <2>1
<1>15. QED
  BY <1>9, <1>10, <1>13, <1>14, Zenon

(* The members of a set, each once, as a sequence.                         *)
LEMMA AscendingLists ==
    ASSUME NEW N \in Nat, NEW S \in SUBSET (0 .. N - 1)
    PROVE  /\ IsFiniteSet(S) /\ Cardinality(S) \in 0 .. N
           /\ Ascending(S) \in Seq(S) /\ Len(Ascending(S)) = Cardinality(S)
           /\ DOMAIN Ascending(S) = 1 .. Cardinality(S)
           /\ {Ascending(S)[k] : k \in 1 .. Cardinality(S)} = S
<1> DEFINE T(n) == {i \in S : i < n}
           Lists(R, s) == s \in Seq(R) /\ {s[k] : k \in 1 .. Len(s)} = R
           P == {n \in 0 .. N : Lists(T(n), Ascending(T(n)))}
<1>0. \A i \in S : i \in Nat /\ 0 <= i /\ i < N
  OBVIOUS
<1>1. /\ IsFiniteSet(S) /\ Cardinality(S) \in 0 .. N
      /\ \A n \in 0 .. N : IsFiniteSet(T(n)) /\ T(n) \in SUBSET Nat
  <2>1. IsFiniteSet(0 .. N - 1) /\ Cardinality(0 .. N - 1) = N
    <3>1. 0 \in Int /\ N - 1 \in Int
      OBVIOUS
    <3>2. /\ IsFiniteSet(0 .. N - 1)
          /\ Cardinality(0 .. N - 1) = IF 0 > N - 1 THEN 0 ELSE N - 1 - 0 + 1
      BY <3>1, FS_Interval
    <3>3. QED
      BY <3>2
  <2>2. /\ IsFiniteSet(S)
        /\ Cardinality(S) <= Cardinality(0 .. N - 1)
    BY <2>1, FS_Subset
  <2>3. Cardinality(S) \in Nat
    BY <2>2, FS_CardinalityType
  <2>4. \A n \in 0 .. N : T(n) \subseteq S /\ T(n) \subseteq Nat
    BY <1>0
  <2>5. \A n \in 0 .. N : IsFiniteSet(T(n))
    <3> HIDE DEF T
    <3>1. QED
      BY <2>2, <2>4, FS_Subset
  <2>6. Cardinality(S) \in 0 .. N
    BY <2>1, <2>2, <2>3
  <2> HIDE DEF T
  <2>7. QED
    BY <2>2, <2>4, <2>5, <2>6
<1>2. 0 \in P
  <2>1. T(0) = {}
    <3>1. \A i \in S : ~(i < 0)
      BY <1>0
    <3>2. QED
      BY <3>1, Zenon
  <2>2. Lists({}, << >>)
    OBVIOUS
  <2>3. 0 \in 0 .. N
    OBVIOUS
  <2> HIDE DEF Lists, T
  <2>4. QED
    BY <2>1, <2>2, <2>3, AscendingEmpty
<1>3. ASSUME NEW n \in 1 .. N, n - 1 \in P PROVE n \in P
  <2> DEFINE m == n - 1
             A == Ascending(T(m))
  <2>1. m \in 0 .. N /\ m \in Nat
    OBVIOUS
  <2>2. Lists(T(m), A)
    BY <1>3
  <2>3. CASE m \in S
    <3>1. T(n) = T(m) \cup {m}
      <4>1. \A i \in S : i < n <=> i < m \/ i = m
        BY <1>0
      <4> HIDE DEF m
      <4>2. QED
        BY <2>3, <4>1
    <3>2. \A i \in T(m) : i < m
      OBVIOUS
    <3> DEFINE B == Append(A, m)
    <3>3. Ascending(T(n)) = B
      <4> HIDE DEF T, m
      <4>1. QED
        BY <1>1, <2>1, <3>1, <3>2, AscendingAppend
    <3>4. A \in Seq(T(n)) /\ m \in T(n)
      <4>1. T(m) \subseteq T(n)
        BY <3>1
      <4>2. A \in Seq(T(m))
        BY <2>2
      <4> HIDE DEF T, A
      <4>3. QED
        BY <3>1, <4>1, <4>2
    <3>5. /\ B \in Seq(T(n)) /\ Len(B) = Len(A) + 1
          /\ (\A k \in 1 .. Len(A) : B[k] = A[k]) /\ B[Len(A) + 1] = m
      <4> HIDE DEF T, A, m
      <4>1. QED
        BY <3>4, AppendProperties
    <3>6. {B[k] : k \in 1 .. Len(B)} = T(n)
      <4>1. {A[k] : k \in 1 .. Len(A)} = T(m) /\ Len(A) \in Nat
        BY <2>2, LenProperties
      <4> HIDE DEF T, A, m, B
      <4>2. ASSUME NEW k \in 1 .. Len(B) PROVE B[k] \in T(n)
        BY <3>5, ElementOfSeq
      <4>3. ASSUME NEW i \in T(n) PROVE \E k \in 1 .. Len(B) : B[k] = i
        <5>1. CASE i = m
          BY <3>5, <4>1, <5>1
        <5>2. CASE i \in T(m)
          <6>1. PICK k \in 1 .. Len(A) : A[k] = i
            BY <4>1, <5>2
          <6>2. QED
            BY <3>5, <4>1, <6>1
        <5>3. QED
          BY <3>1, <5>1, <5>2
      <4>4. QED
        BY <4>2, <4>3
    <3> HIDE DEF T, A, m, B
    <3>7. QED
      BY <3>3, <3>5, <3>6
  <2>4. CASE m \notin S
    <3>1. T(n) = T(m)
      <4>1. \A i \in S : i # m => (i < n <=> i < m)
        BY <1>0
      <4> HIDE DEF m
      <4>2. QED
        BY <2>4, <4>1
    <3> HIDE DEF T, Lists, m
    <3>2. QED
      BY <2>2, <3>1
  <2>5. QED
    BY <2>3, <2>4
<1>4. N \in P
  <2> HIDE DEF P
  <2>1. QED
    BY <1>2, <1>3, Induction
<1>5. T(N) = S
  BY <1>0
<1>6. Lists(S, Ascending(S))
  <2> HIDE DEF Lists, T
  <2>1. QED
    BY <1>4, <1>5
<1>7. Len(Ascending(S)) = Cardinality(S) /\ DOMAIN Ascending(S) = 1 .. Cardinality(S)
  <2>1. DOMAIN Ascending(S) = 1 .. Cardinality(S)
    BY DEF Ascending
  <2>2. Ascending(S) \in Seq(S)
    BY <1>6
  <2>3. QED
    BY <1>1, <2>1, <2>2, LenProperties
<1>8. QED
  BY <1>1, <1>6, <1>7

-----------------------------------------------------------------------------
(* Functions that do not overlap.                                          *)

LEMMA KeepType ==
    ASSUME NEW fns \in Seq(Functions), NEW c \in Functions
    PROVE  Keep(fns, c) \in Seq(Functions)
  BY AppendProperties DEF Keep

(* The recursion in Resolved, function by function.                        *)
ResolvedBy(f, fns) ==
    /\ f[0] = << >> /\ Resolved(fns) = f[Len(fns)]
    /\ \A n \in 1 .. Len(fns) : f[n] = Keep(f[n - 1], fns[n])
    /\ \A n \in 0 .. Len(fns) : f[n] \in Seq(Functions)

LEMMA ResolvedRounds ==
    ASSUME NEW fns \in Seq(Functions)
    PROVE  \E f : ResolvedBy(f, fns)
<1> DEFINE N == Len(fns)
           S == Seq(Functions)
           h == [x \in S \X (1 .. N) |-> Keep(x[1], fns[x[2]])]
           Def(f) == f = [n \in 0 .. N |-> IF n = 0 THEN << >> ELSE Keep(f[n - 1], fns[n])]
           g == CHOOSE f : Def(f)
<1>1. N \in Nat
  BY LenProperties
<1>2. ASSUME NEW s \in S, NEW n \in 1 .. N PROVE Keep(s, fns[n]) \in S
  <2>1. fns[n] \in Functions
    BY ElementOfSeq
  <2>2. QED
    BY <2>1, KeepType
<1>3. << >> \in S
  BY EmptySeq
<1>4. h \in [S \X (1 .. N) -> S]
  BY <1>2
<1>5. \E f : Def(f)
  <2>1. PICK f : Iterates(f, S, << >>, N, h)
    <3> HIDE DEF h, S, N
    <3>1. QED
      BY <1>1, <1>3, <1>4, Recursion
  <2>2. ASSUME NEW n \in 0 .. N
        PROVE  f[n] = IF n = 0 THEN << >> ELSE Keep(f[n - 1], fns[n])
    <3>1. CASE n = 0
      BY <2>1, <3>1 DEF Iterates
    <3>2. CASE n # 0
      <4>1. n \in 1 .. N /\ n - 1 \in 0 .. N
        BY <1>1, <3>2
      <4>2. f[n - 1] \in S
        BY <2>1, <4>1 DEF Iterates
      <4>3. <<f[n - 1], n>> \in S \X (1 .. N)
        BY <4>1, <4>2
      <4>4. h[<<f[n - 1], n>>] = Keep(f[n - 1], fns[n])
        BY <4>3
      <4>5. QED
        BY <2>1, <3>2, <4>1, <4>4 DEF Iterates
    <3>3. QED
      BY <3>1, <3>2
  <2>3. f = [n \in 0 .. N |-> IF n = 0 THEN << >> ELSE Keep(f[n - 1], fns[n])]
    BY <2>1, <2>2 DEF Iterates
  <2>4. QED
    BY <2>3
<1>6. Def(g)
  BY <1>5
<1>7. Resolved(fns) = g[N]
  BY DEF Resolved
<1> HIDE DEF g
<1>8. g[0] = << >>
  <2>1. 0 \in 0 .. N
    BY <1>1
  <2>2. QED
    BY <1>6, <2>1
<1>9. ASSUME NEW n \in 1 .. N PROVE g[n] = Keep(g[n - 1], fns[n])
  <2>1. n \in 0 .. N /\ n # 0
    BY <1>1
  <2>2. QED
    BY <1>6, <2>1
<1>10. \A n \in 0 .. N : g[n] \in S
  <2> DEFINE P == {n \in 0 .. N : g[n] \in S}
  <2>1. 0 \in P
    <3>1. 0 \in 0 .. N /\ g[0] \in S
      BY <1>1, <1>3, <1>8
    <3>2. QED
      BY <3>1
  <2>2. ASSUME NEW n \in 1 .. N, n - 1 \in P PROVE n \in P
    BY <1>1, <1>2, <1>9, <2>2
  <2>3. \A n \in 0 .. N : n \in P
    <3> HIDE DEF P
    <3>1. QED
      BY <1>1, <2>1, <2>2, Induction
  <2>4. QED
    BY <2>3
<1>11. QED
  BY <1>7, <1>8, <1>9, <1>10 DEF ResolvedBy

LEMMA ResolvedEmpty == Resolved(<< >>) = << >>
<1>1. << >> \in Seq(Functions) /\ Len(<< >>) = 0
  BY EmptySeq
<1>2. QED
  BY <1>1, ResolvedRounds DEF ResolvedBy

(* One more function is one more round.                                    *)
LEMMA ResolvedAppend ==
    ASSUME NEW fns \in Seq(Functions), NEW c \in Functions
    PROVE  /\ Resolved(fns) \in Seq(Functions)
           /\ Resolved(Append(fns, c)) = Keep(Resolved(fns), c)
<1> DEFINE N == Len(fns)
           more == Append(fns, c)
<1>1. N \in Nat
  BY LenProperties
<1>2. /\ more \in Seq(Functions) /\ Len(more) = N + 1
      /\ (\A n \in 1 .. N : more[n] = fns[n]) /\ more[N + 1] = c
  BY AppendProperties
<1>3. PICK f : ResolvedBy(f, fns)
  BY ResolvedRounds
<1> HIDE DEF more
<1>4. PICK g : ResolvedBy(g, more)
  BY <1>2, ResolvedRounds
<1>5. \A n \in 0 .. N : f[n] = g[n]
  <2> DEFINE P == {n \in 0 .. N : f[n] = g[n]}
  <2>1. 0 \in P
    BY <1>1, <1>3, <1>4 DEF ResolvedBy
  <2>2. ASSUME NEW n \in 1 .. N, n - 1 \in P PROVE n \in P
    <3>1. f[n] = Keep(f[n - 1], fns[n])
      BY <1>3 DEF ResolvedBy
    <3>2. g[n] = Keep(g[n - 1], more[n])
      BY <1>1, <1>2, <1>4 DEF ResolvedBy
    <3>3. QED
      BY <1>2, <2>2, <3>1, <3>2
  <2> HIDE DEF P
  <2>3. \A n \in 0 .. N : n \in P
    BY <1>1, <2>1, <2>2, Induction
  <2>4. QED
    BY <2>3 DEF P
<1>6. Resolved(fns) = f[N] /\ f[N] \in Seq(Functions) /\ f[N] = g[N]
  BY <1>1, <1>3, <1>5 DEF ResolvedBy
<1>7. Resolved(more) = Keep(g[N], c)
  BY <1>1, <1>2, <1>4 DEF ResolvedBy
<1>8. QED
  BY <1>6, <1>7 DEF more

-----------------------------------------------------------------------------
(* What the hits below an offset give, for every section.                  *)

HitsBelow(n) == {i \in Hits : i < n}
Fns(s) == [k \in DOMAIN s |-> Fn(s[k])]
KeptBelow(n) == Resolved(Fns(Ascending(HitsBelow(n))))

LEMMA FnType ==
    ASSUME section \in Sections, NEW i \in Hits
    PROVE  Fn(i) \in Functions /\ Fn(i).start = i /\ Fn(i).end = i + section[i]
<1>1. i \in Offsets /\ section[i] > 0
  BY DEF Hits, Hit
<1>2. section[i] \in 0 .. Size /\ i + section[i] <= Size
  BY <1>1 DEF Sections
<1>3. i + section[i] \in 1 .. Size
  BY <1>1, <1>2, SizeAssumption DEF Offsets
<1>4. QED
  BY <1>1, <1>3 DEF Fn, Functions

LEMMA FnsType ==
    ASSUME section \in Sections, NEW s \in Seq(Hits)
    PROVE  Fns(s) \in Seq(Functions) /\ Len(Fns(s)) = Len(s) /\ DOMAIN Fns(s) = 1 .. Len(s)
<1>1. Len(s) \in Nat /\ DOMAIN s = 1 .. Len(s)
  BY LenProperties
<1>2. \A k \in 1 .. Len(s) : Fn(s[k]) \in Functions
  BY FnType, ElementOfSeq
<1>3. Fns(s) = [k \in 1 .. Len(s) |-> Fn(s[k])]
  BY <1>1 DEF Fns
<1>4. [k \in 1 .. Len(s) |-> Fn(s[k])] \in Seq(Functions)
  BY <1>1, <1>2, IsASeq
<1>5. DOMAIN Fns(s) = 1 .. Len(s)
  BY <1>3
<1>6. QED
  BY <1>1, <1>3, <1>4, <1>5, LenProperties

LEMMA FnsAppend ==
    ASSUME section \in Sections, NEW s \in Seq(Hits), NEW i \in Hits
    PROVE  Fns(Append(s, i)) = Append(Fns(s), Fn(i))
<1> DEFINE t == Append(s, i)
           L == Fns(t)
           R == Append(Fns(s), Fn(i))
           n == Len(s)
<1>1. n \in Nat /\ DOMAIN s = 1 .. n
  BY LenProperties
<1>2. t \in Seq(Hits) /\ Len(t) = n + 1 /\ (\A k \in 1 .. n : t[k] = s[k]) /\ t[n + 1] = i
  BY AppendProperties
<1> HIDE DEF t
<1>3. Fns(s) \in Seq(Functions) /\ Len(Fns(s)) = n /\ DOMAIN Fns(s) = 1 .. n
  BY FnsType
<1>4. L \in Seq(Functions) /\ Len(L) = n + 1 /\ DOMAIN L = 1 .. n + 1
  BY <1>2, FnsType
<1>5. Fn(i) \in Functions
  BY FnType
<1>6. /\ R \in Seq(Functions) /\ Len(R) = n + 1
      /\ (\A k \in 1 .. n : R[k] = Fns(s)[k]) /\ R[n + 1] = Fn(i)
  <2> DEFINE F == Fns(s)
  <2> HIDE DEF F, n
  <2>1. /\ Append(F, Fn(i)) \in Seq(Functions) /\ Len(Append(F, Fn(i))) = Len(F) + 1
        /\ (\A k \in 1 .. Len(F) : Append(F, Fn(i))[k] = F[k])
        /\ Append(F, Fn(i))[Len(F) + 1] = Fn(i)
    BY <1>3, <1>5, AppendProperties DEF F
  <2>2. QED
    BY <1>3, <2>1 DEF F
<1>7. \A k \in 1 .. n : Fns(s)[k] = Fn(s[k])
  BY <1>1 DEF Fns
<1>8. \A k \in 1 .. n + 1 : L[k] = Fn(t[k])
  <2>1. DOMAIN t = 1 .. n + 1
    BY <1>2, LenProperties
  <2>2. QED
    BY <2>1 DEF Fns
<1> HIDE DEF L, R, n
<1>9. \A k \in 1 .. n + 1 : L[k] = R[k]
  <2>1. \A k \in 1 .. n + 1 : k \in 1 .. n \/ k = n + 1
    BY <1>1
  <2>2. \A k \in 1 .. n : L[k] = R[k]
    <3>1. \A k \in 1 .. n : k \in 1 .. n + 1
      BY <1>1
    <3>2. QED
      BY <1>2, <1>6, <1>7, <1>8, <3>1, Zenon
  <2>3. L[n + 1] = R[n + 1]
    <3>1. n + 1 \in 1 .. n + 1
      BY <1>1
    <3>2. QED
      BY <1>2, <1>6, <1>8, <3>1, Zenon
  <2>4. QED
    BY <2>1, <2>2, <2>3, Zenon
<1>10. L = R
  BY <1>4, <1>6, <1>9, SeqEqual
<1>11. QED
  BY <1>10 DEF L, R, t

LEMMA BelowType ==
    \A n \in 0 .. Size : /\ HitsBelow(n) \in SUBSET (0 .. Size - 1) /\ HitsBelow(n) \subseteq Hits
                         /\ IsFiniteSet(HitsBelow(n))
                         /\ Ascending(HitsBelow(n)) \in Seq(Hits)
<1> SUFFICES ASSUME NEW n \in 0 .. Size
             PROVE  /\ HitsBelow(n) \in SUBSET (0 .. Size - 1) /\ HitsBelow(n) \subseteq Hits
                    /\ IsFiniteSet(HitsBelow(n))
                    /\ Ascending(HitsBelow(n)) \in Seq(Hits)
  OBVIOUS
<1>1. HitsBelow(n) \in SUBSET (0 .. Size - 1) /\ HitsBelow(n) \subseteq Hits
  BY DEF HitsBelow, Hits, Offsets
<1>2. Ascending(HitsBelow(n)) \in Seq(HitsBelow(n)) /\ IsFiniteSet(HitsBelow(n))
  <2>1. Size \in Nat
    BY SizeAssumption
  <2>2. QED
    BY <1>1, <2>1, AscendingLists
<1>3. QED
  BY <1>1, <1>2

(* One offset more is one more hit, or none.                               *)
LEMMA BelowNext ==
    \A n \in Offsets :
        /\ n \in Hits => Ascending(HitsBelow(n + 1)) = Append(Ascending(HitsBelow(n)), n)
        /\ n \notin Hits => HitsBelow(n + 1) = HitsBelow(n)
<1> SUFFICES ASSUME NEW n \in Offsets
             PROVE  /\ n \in Hits => Ascending(HitsBelow(n + 1)) = Append(Ascending(HitsBelow(n)), n)
                    /\ n \notin Hits => HitsBelow(n + 1) = HitsBelow(n)
  OBVIOUS
<1>1. n \in Nat /\ n \in 0 .. Size /\ Hits \subseteq Nat
  BY SizeAssumption DEF Offsets, Hits
<1>2. \A i \in Hits : (i < n + 1 <=> i < n \/ i = n) /\ ~(n < n)
  BY <1>1
<1>3. n \notin Hits => HitsBelow(n + 1) = HitsBelow(n)
  BY <1>2 DEF HitsBelow
<1>4. ASSUME n \in Hits PROVE Ascending(HitsBelow(n + 1)) = Append(Ascending(HitsBelow(n)), n)
  <2>1. HitsBelow(n + 1) = HitsBelow(n) \cup {n}
    BY <1>2, <1>4 DEF HitsBelow
  <2>2. \A i \in HitsBelow(n) : i < n
    BY DEF HitsBelow
  <2>3. HitsBelow(n) \in SUBSET Nat /\ IsFiniteSet(HitsBelow(n))
    BY <1>1, BelowType
  <2>4. Ascending(HitsBelow(n) \cup {n}) = Append(Ascending(HitsBelow(n)), n)
    BY <1>1, <2>2, <2>3, AscendingAppend
  <2>5. QED
    BY <2>1, <2>4
<1>5. QED
  BY <1>3, <1>4

LEMMA BelowEnds == HitsBelow(0) = {} /\ HitsBelow(Size) = Hits
<1>1. \A i \in Hits : ~(i < 0) /\ i < Size
  BY SizeAssumption DEF Hits, Offsets
<1>2. QED
  BY <1>1, Zenon DEF HitsBelow

(* One offset more is at most one round of resolving.                      *)
LEMMA KeptNext ==
    ASSUME section \in Sections
    PROVE  /\ KeptBelow(0) = << >>
           /\ \A n \in 0 .. Size : KeptBelow(n) \in Seq(Functions)
           /\ \A n \in Offsets :
                 KeptBelow(n + 1) = IF n \in Hits THEN Keep(KeptBelow(n), Fn(n)) ELSE KeptBelow(n)
<1>1. KeptBelow(0) = << >>
  <2>1. Ascending(HitsBelow(0)) = << >>
    BY BelowEnds, AscendingEmpty
  <2>2. Fns(<< >>) = << >>
    BY DEF Fns
  <2>3. QED
    BY <2>1, <2>2, ResolvedEmpty DEF KeptBelow
<1>2. ASSUME NEW n \in 0 .. Size PROVE KeptBelow(n) \in Seq(Functions)
  <2>1. Fns(Ascending(HitsBelow(n))) \in Seq(Functions)
    BY BelowType, FnsType
  <2>2. PICK f : ResolvedBy(f, Fns(Ascending(HitsBelow(n))))
    BY <2>1, ResolvedRounds
  <2>3. Len(Fns(Ascending(HitsBelow(n)))) \in Nat
    BY <2>1, LenProperties
  <2>4. QED
    BY <2>2, <2>3 DEF ResolvedBy, KeptBelow
<1>3. ASSUME NEW n \in Offsets
      PROVE  KeptBelow(n + 1) = IF n \in Hits THEN Keep(KeptBelow(n), Fn(n)) ELSE KeptBelow(n)
  <2>1. n \in 0 .. Size
    BY SizeAssumption DEF Offsets
  <2>2. CASE n \in Hits
    <3> DEFINE A == Ascending(HitsBelow(n))
    <3>1. Ascending(HitsBelow(n + 1)) = Append(A, n)
      BY <2>2, BelowNext
    <3>2. A \in Seq(Hits)
      BY <2>1, BelowType
    <3> HIDE DEF A
    <3>3. Fns(Append(A, n)) = Append(Fns(A), Fn(n))
      BY <2>2, <3>2, FnsAppend
    <3>4. Resolved(Append(Fns(A), Fn(n))) = Keep(Resolved(Fns(A)), Fn(n))
      <4>1. Fns(A) \in Seq(Functions) /\ Fn(n) \in Functions
        BY <2>2, <3>2, FnsType, FnType
      <4>2. QED
        BY <4>1, ResolvedAppend
    <3>5. QED
      BY <2>2, <3>1, <3>3, <3>4 DEF KeptBelow, A
  <2>3. CASE n \notin Hits
    BY <2>3, BelowNext DEF KeptBelow
  <2>4. QED
    BY <2>2, <2>3
<1>4. QED
  BY <1>1, <1>2, <1>3

-----------------------------------------------------------------------------
(* find_functions, round by round.                                         *)

Finding == [i : 0 .. Size, fns : Seq(Functions)]

(* So far it has kept what resolving the hits below its offset keeps, all  *)
(* of which end there or before; and after n rounds it has come to n, or   *)
(* to the end.                                                             *)
Found(s, n) ==
    /\ s \in Finding
    /\ s.fns = KeptBelow(s.i)
    /\ s.fns = << >> \/ s.fns[Len(s.fns)].end <= s.i
    /\ n <= s.i \/ s.i + Lookahead >= Size

LEMMA FindRoundType ==
    ASSUME section \in Sections, NEW s \in Finding
    PROVE  FindRound(s) \in Finding
<1>1. s.i \in 0 .. Size /\ s.fns \in Seq(Functions) /\ Size \in Nat /\ Lookahead \in Nat \ {0}
  BY SizeAssumption DEF Finding
<1>2. CASE s.i + Lookahead >= Size
  BY <1>2 DEF FindRound
<1>3. CASE ~(s.i + Lookahead >= Size)
  <2>1. s.i \in Offsets /\ s.i + 1 \in 0 .. Size
    BY <1>1, <1>3 DEF Offsets
  <2>2. section[s.i] \in 0 .. Size /\ s.i + section[s.i] <= Size
    BY <2>1 DEF Sections
  <2>3. CASE section[s.i] = 0
    <3>1. FindRound(s) = [s EXCEPT !.i = @ + 1]
      BY <1>3, <2>3 DEF FindRound
    <3>2. QED
      BY <2>1, <3>1 DEF Finding
  <2>4. CASE section[s.i] # 0
    <3>1. s.i + section[s.i] \in 0 .. Size /\ s.i + section[s.i] \in 1 .. Size
      BY <1>1, <2>2, <2>4
    <3>2. Fn(s.i) \in Functions
      BY <2>1, <3>1 DEF Fn, Functions
    <3>3. Append(s.fns, Fn(s.i)) \in Seq(Functions)
      BY <1>1, <3>2, AppendProperties
    <3>4. FindRound(s) = [i |-> s.i + section[s.i], fns |-> Append(s.fns, Fn(s.i))]
      BY <1>3, <2>4 DEF FindRound
    <3>5. QED
      BY <3>1, <3>3, <3>4 DEF Finding
  <2>5. QED
    BY <2>3, <2>4
<1>4. QED
  BY <1>2, <1>3

(* Behind a function that is kept nothing is kept until it ends.           *)
LEMMA NothingUntilEnd ==
    ASSUME section \in Sections, NEW b \in Offsets, NEW e \in 0 .. Size, b < e,
           KeptBelow(b + 1) # << >>,
           KeptBelow(b + 1)[Len(KeptBelow(b + 1))].end = e
    PROVE  KeptBelow(e) = KeptBelow(b + 1)
<1> DEFINE F == KeptBelow(b + 1)
           N == e - (b + 1)
           P == {n \in 0 .. N : KeptBelow(b + 1 + n) = F}
<1>1. b \in Nat /\ e \in Nat /\ N \in Nat /\ Size \in Nat
  BY SizeAssumption DEF Offsets
<1>2. 0 \in P
  <2>1. b + 1 + 0 = b + 1 /\ 0 \in 0 .. N
    BY <1>1
  <2>2. QED
    BY <2>1
<1>3. ASSUME NEW n \in 1 .. N, n - 1 \in P PROVE n \in P
  <2> DEFINE j == b + n
  <2>1. j \in Offsets /\ j < e /\ j = b + 1 + (n - 1) /\ j + 1 = b + 1 + n /\ n \in 0 .. N
    BY <1>1 DEF Offsets
  <2>2. KeptBelow(j) = F
    BY <1>3, <2>1
  <2> HIDE DEF j
  <2>3. KeptBelow(j + 1) = IF j \in Hits THEN Keep(KeptBelow(j), Fn(j)) ELSE KeptBelow(j)
    BY <2>1, KeptNext
  <2>4. Fn(j).start = j
    BY DEF Fn
  <2>5. Keep(F, Fn(j)) = F
    BY <2>1, <2>4 DEF Keep
  <2>6. KeptBelow(j + 1) = F
    <3> HIDE DEF F
    <3>1. QED
      BY <2>2, <2>3, <2>5
  <2>7. QED
    BY <2>1, <2>6
<1>4. N \in P
  <2>1. N \in 0 .. N
    BY <1>1
  <2> HIDE DEF P, N
  <2>2. QED
    BY <1>1, <1>2, <1>3, <2>1, Induction
<1>5. b + 1 + N = e
  BY <1>1
<1> HIDE DEF N
<1>6. QED
  BY <1>4, <1>5

LEMMA FindRoundKeeps ==
    ASSUME section \in Sections, job = "functions", NEW n \in Nat, NEW s, Found(s, n)
    PROVE  Found(FindRound(s), n + 1)
<1>1. /\ s \in Finding /\ s.i \in 0 .. Size /\ s.fns \in Seq(Functions)
      /\ Size \in Nat /\ Lookahead \in Nat \ {0}
  BY SizeAssumption DEF Found, Finding
<1>2. CASE s.i + Lookahead >= Size
  BY <1>2 DEF FindRound, Found
<1>3. CASE ~(s.i + Lookahead >= Size)
  <2>1. s.i \in Offsets /\ s.i + 1 \in 0 .. Size /\ n <= s.i
    BY <1>1, <1>3 DEF Offsets, Found
  <2>2. section[s.i] \in 0 .. Size /\ s.i + section[s.i] <= Size
    BY <2>1 DEF Sections
  <2>3. s.i \in Hits <=> section[s.i] # 0
    BY <1>1, <1>3, <2>1, <2>2 DEF Hits, Hit
  <2>4. KeptBelow(s.i + 1) = IF s.i \in Hits THEN Keep(s.fns, Fn(s.i)) ELSE s.fns
    BY <2>1, KeptNext DEF Found
  <2>5. CASE section[s.i] = 0
    <3> DEFINE t == FindRound(s)
    <3>1. t = [s EXCEPT !.i = @ + 1]
      BY <1>3, <2>5 DEF FindRound
    <3>2. t.i = s.i + 1 /\ t.fns = s.fns
      BY <1>1, <3>1 DEF Finding
    <3>3. t \in Finding
      BY <1>1, FindRoundType
    <3> HIDE DEF t
    <3>4. t.fns = KeptBelow(t.i)
      BY <2>3, <2>4, <2>5, <3>2
    <3>5. t.fns = << >> \/ t.fns[Len(t.fns)].end <= t.i
      <4>1. CASE s.fns = << >>
        BY <3>2, <4>1
      <4>2. CASE s.fns # << >>
        <5>1. s.fns[Len(s.fns)].end <= s.i /\ s.fns[Len(s.fns)] \in Functions
          <6>1. Len(s.fns) \in 1 .. Len(s.fns)
            BY <1>1, <4>2
          <6>2. QED
            BY <1>1, <4>2, <6>1, ElementOfSeq DEF Found
        <5>2. QED
          BY <1>1, <3>2, <5>1 DEF Functions
      <4>3. QED
        BY <4>1, <4>2
    <3>6. n + 1 <= t.i
      BY <1>1, <2>1, <3>2
    <3>7. QED
      BY <3>3, <3>4, <3>5, <3>6 DEF Found, t
  <2>6. CASE section[s.i] # 0
    <3> DEFINE t == FindRound(s)
               e == s.i + section[s.i]
    <3>1. t = [i |-> e, fns |-> Append(s.fns, Fn(s.i))]
      BY <1>3, <2>6 DEF FindRound
    <3>2. e \in 0 .. Size /\ s.i < e
      BY <1>1, <2>2, <2>6
    <3>3. Fn(s.i) \in Functions /\ Fn(s.i).start = s.i /\ Fn(s.i).end = e
      BY <2>3, <2>6, FnType
    <3>4. t \in Finding
      BY <1>1, FindRoundType
    <3>5. t.i = e /\ t.fns = Append(s.fns, Fn(s.i))
      BY <3>1
    <3> HIDE DEF t, e
    <3>6. /\ t.fns # << >> /\ t.fns[Len(t.fns)] = Fn(s.i)
      BY <1>1, <3>3, <3>5, AppendProperties
    <3>7. KeptBelow(s.i + 1) = t.fns
      <4>1. ~(s.fns # << >> /\ s.i < s.fns[Len(s.fns)].end)
        <5>1. CASE s.fns = << >>
          BY <5>1
        <5>2. CASE s.fns # << >>
          <6>1. Len(s.fns) \in 1 .. Len(s.fns)
            BY <1>1, <5>2
          <6>2. s.fns[Len(s.fns)].end <= s.i /\ s.fns[Len(s.fns)] \in Functions
            BY <1>1, <5>2, <6>1, ElementOfSeq DEF Found
          <6>3. s.fns[Len(s.fns)].end \in Nat
            BY <6>2 DEF Functions
          <6>4. QED
            BY <1>1, <6>2, <6>3
        <5>3. QED
          BY <5>1, <5>2
      <4>2. Keep(s.fns, Fn(s.i)) = Append(s.fns, Fn(s.i))
        BY <3>3, <4>1 DEF Keep
      <4>3. QED
        BY <2>3, <2>4, <2>6, <3>5, <4>2
    <3>8. KeptBelow(e) = t.fns
      BY <2>1, <3>2, <3>3, <3>6, <3>7, NothingUntilEnd
    <3>9. n + 1 <= e
      BY <1>1, <2>1, <3>2
    <3>10. t.fns[Len(t.fns)].end <= t.i
      BY <3>2, <3>3, <3>5, <3>6
    <3>11. QED
      BY <3>4, <3>5, <3>8, <3>9, <3>10 DEF Found, t
  <2>7. QED
    BY <2>5, <2>6
<1>4. QED
  BY <1>2, <1>3

(* It finds what resolving all hits keeps.                                 *)
LEMMA FindFunctionsKeeps ==
    ASSUME section \in Sections, job = "functions"
    PROVE  FindFunctions = Resolved(Fns(Ascending(Hits)))
<1> DEFINE S == Finding
           N == Size
           a == [i |-> 0, fns |-> << >>]
           h == [x \in S \X (1 .. N) |-> FindRound(x[1])]
           Def(f) == f = [n \in 0 .. N |-> IF n = 0 THEN a ELSE FindRound(f[n - 1])]
           g == CHOOSE f : Def(f)
<1>1. N \in Nat
  BY SizeAssumption
<1>2. \A s \in S : FindRound(s) \in S
  BY FindRoundType
<1>3. a \in S
  <2>1. << >> \in Seq(Functions) /\ 0 \in 0 .. Size
    BY <1>1, EmptySeq
  <2>2. QED
    BY <2>1 DEF Finding
<1>4. h \in [S \X (1 .. N) -> S]
  BY <1>2
<1>5. \E f : Def(f)
  <2>1. PICK f : Iterates(f, S, a, N, h)
    <3> HIDE DEF h, S, N, a
    <3>1. QED
      BY <1>1, <1>3, <1>4, Recursion
  <2> HIDE DEF S, N, a
  <2>2. ASSUME NEW n \in 0 .. N
        PROVE  f[n] = IF n = 0 THEN a ELSE FindRound(f[n - 1])
    <3>1. CASE n = 0
      BY <2>1, <3>1 DEF Iterates
    <3>2. CASE n # 0
      <4>1. n \in 1 .. N /\ n - 1 \in 0 .. N
        BY <1>1, <3>2
      <4>2. f[n - 1] \in S
        BY <2>1, <4>1 DEF Iterates
      <4>3. <<f[n - 1], n>> \in S \X (1 .. N)
        BY <4>1, <4>2
      <4>4. h[<<f[n - 1], n>>] = FindRound(f[n - 1])
        BY <4>3
      <4>5. QED
        BY <2>1, <3>2, <4>1, <4>4 DEF Iterates
    <3>3. QED
      BY <3>1, <3>2
  <2>3. f = [n \in 0 .. N |-> IF n = 0 THEN a ELSE FindRound(f[n - 1])]
    BY <2>1, <2>2 DEF Iterates
  <2>4. QED
    BY <2>3
<1>6. Def(g)
  BY <1>5
<1>7. FindFunctions = g[N].fns
  BY DEF FindFunctions
<1> HIDE DEF g
<1>8. \A n \in 0 .. N : Found(g[n], n)
  <2> DEFINE P == {n \in 0 .. N : Found(g[n], n)}
  <2>1. 0 \in P
    <3>1. 0 \in 0 .. N
      BY <1>1
    <3>2. g[0] = a
      BY <1>6, <3>1
    <3>3. a.i = 0 /\ a.fns = << >>
      OBVIOUS
    <3>4. Found(a, 0)
      <4> HIDE DEF a
      <4>1. QED
        BY <1>3, <3>3, KeptNext DEF Found
    <3> HIDE DEF a
    <3>5. QED
      BY <3>1, <3>2, <3>4
  <2>2. ASSUME NEW n \in 1 .. N, n - 1 \in P PROVE n \in P
    <3>1. n \in 0 .. N /\ n # 0 /\ n - 1 \in Nat /\ n - 1 + 1 = n
      BY <1>1
    <3>2. g[n] = FindRound(g[n - 1])
      BY <1>6, <3>1
    <3>3. Found(g[n - 1], n - 1)
      BY <2>2
    <3>4. Found(FindRound(g[n - 1]), n - 1 + 1)
      BY <3>1, <3>3, FindRoundKeeps
    <3>5. QED
      BY <3>1, <3>2, <3>4
  <2>3. \A n \in 0 .. N : n \in P
    <3> HIDE DEF P
    <3>1. QED
      BY <1>1, <2>1, <2>2, Induction
  <2>4. QED
    BY <2>3
<1>9. Found(g[N], N)
  BY <1>1, <1>8
<1>10. g[N].i \in 0 .. Size /\ g[N].i + Lookahead >= Size
  BY <1>9, SizeAssumption DEF Found, Finding
<1>11. HitsBelow(g[N].i) = Hits
  <2>1. \A i \in Hits : i \in Nat /\ i + Lookahead < Size
    BY DEF Hits, Hit, Offsets
  <2>2. \A i \in Hits : i < g[N].i
    BY <1>10, <2>1, SizeAssumption
  <2>3. QED
    BY <2>2, Zenon DEF HitsBelow
<1>12. g[N].fns = KeptBelow(g[N].i)
  BY <1>9 DEF Found
<1>13. QED
  BY <1>7, <1>11, <1>12 DEF KeptBelow

-----------------------------------------------------------------------------
(* The measured functions in order.                                        *)

LEMMA ByStartOrders ==
    ASSUME section \in Sections, {measured[k] : k \in DOMAIN measured} = {Fn(i) : i \in Hits}
    PROVE  ByStart(measured) = Fns(Ascending(Hits))
<1> DEFINE A == Ascending(Hits)
           M == {measured[k] : k \in DOMAIN measured}
<1>1. \A i \in Hits : Fn(i).start = i
  BY DEF Fn
<1>2. {measured[k].start : k \in DOMAIN measured} = Hits
  <2>1. {measured[k].start : k \in DOMAIN measured} = {f.start : f \in M}
    OBVIOUS
  <2>2. {f.start : f \in M} = {Fn(i).start : i \in Hits}
    <3> HIDE DEF M
    <3>1. M = {Fn(i) : i \in Hits}
      BY DEF M
    <3>2. QED
      BY <3>1
  <2>3. {Fn(i).start : i \in Hits} = Hits
    BY <1>1
  <2> HIDE DEF M
  <2>4. QED
    BY <2>1, <2>2, <2>3
<1>3. ByStart(measured) = [n \in DOMAIN A |-> CHOOSE f \in M : f.start = A[n]]
  <2> DEFINE T == {measured[k].start : k \in DOMAIN measured}
  <2>1. ByStart(measured) =
           [n \in DOMAIN Ascending(T) |-> CHOOSE f \in M : f.start = Ascending(T)[n]]
    BY DEF ByStart
  <2> HIDE DEF T, M
  <2>2. T = Hits
    BY <1>2 DEF T
  <2>3. QED
    BY <2>1, <2>2
<1>4. ASSUME NEW n \in DOMAIN A PROVE (CHOOSE f \in M : f.start = A[n]) = Fn(A[n])
  <2>1. A[n] \in Hits
    <3>1. Size \in Nat /\ Hits \in SUBSET (0 .. Size - 1)
      BY SizeAssumption DEF Hits, Offsets
    <3>2. A \in Seq(Hits)
      BY <3>1, AscendingLists
    <3> HIDE DEF A
    <3>3. QED
      BY <3>2
  <2>2. Fn(A[n]) \in M /\ Fn(A[n]).start = A[n]
    <3> HIDE DEF A
    <3>1. QED
      BY <1>1, <2>1
  <2>3. ASSUME NEW f \in M, f.start = A[n] PROVE f = Fn(A[n])
    <3>1. PICK i \in Hits : f = Fn(i)
      <4> HIDE DEF M
      <4>1. M = {Fn(i) : i \in Hits}
        BY DEF M
      <4>2. QED
        BY <4>1
    <3>2. i = A[n]
      BY <1>1, <2>3, <3>1
    <3>3. QED
      BY <3>1, <3>2
  <2> HIDE DEF M, A
  <2>4. QED
    BY <2>2, <2>3
<1>5. Fns(A) = [n \in DOMAIN A |-> Fn(A[n])]
  BY DEF Fns
<1> HIDE DEF A, M
<1>6. [n \in DOMAIN A |-> CHOOSE f \in M : f.start = A[n]] = [n \in DOMAIN A |-> Fn(A[n])]
  BY <1>4, Zenon
<1>7. QED
  BY <1>3, <1>5, <1>6, Zenon DEF A

-----------------------------------------------------------------------------
(* byte_diff, byte by byte.                                                *)

ByteDifference == [offset : Offsets, old : {0, 1}, new : {0, 1}]
OffsetsOf(s) == [k \in DOMAIN s |-> s[k].offset]

LEMMA OffsetsAppend ==
    ASSUME NEW s \in Seq(ByteDifference), NEW d \in ByteDifference
    PROVE  /\ OffsetsOf(s) \in Seq(Offsets)
           /\ OffsetsOf(Append(s, d)) = Append(OffsetsOf(s), d.offset)
<1> DEFINE t == Append(s, d)
           O == OffsetsOf(s)
           L == OffsetsOf(t)
           R == Append(O, d.offset)
           n == Len(s)
<1>1. n \in Nat /\ DOMAIN s = 1 .. n
  BY LenProperties
<1>2. t \in Seq(ByteDifference) /\ Len(t) = n + 1 /\ (\A k \in 1 .. n : t[k] = s[k]) /\ t[n + 1] = d
  BY AppendProperties
<1> HIDE DEF t
<1>3. DOMAIN t = 1 .. n + 1
  BY <1>2, LenProperties
<1>4. d.offset \in Offsets /\ \A k \in 1 .. n : s[k].offset \in Offsets
  <2>1. \A k \in 1 .. n : s[k] \in ByteDifference
    BY ElementOfSeq
  <2>2. QED
    BY <2>1 DEF ByteDifference
<1>5. \A k \in 1 .. n + 1 : t[k].offset \in Offsets
  <2>1. \A k \in 1 .. n + 1 : t[k] \in ByteDifference
    BY <1>2, ElementOfSeq
  <2>2. QED
    BY <2>1 DEF ByteDifference
<1>6. O = [k \in 1 .. n |-> s[k].offset] /\ L = [k \in 1 .. n + 1 |-> t[k].offset]
  BY <1>1, <1>3 DEF OffsetsOf
<1> HIDE DEF n
<1>7. O \in Seq(Offsets) /\ Len(O) = n /\ L \in Seq(Offsets) /\ Len(L) = n + 1
  <2> HIDE DEF O, L
  <2>1. O \in [1 .. n -> Offsets] /\ L \in [1 .. n + 1 -> Offsets]
    BY <1>4, <1>5, <1>6
  <2>2. QED
    BY <1>1, <2>1
<1> HIDE DEF O, L
<1>8. /\ R \in Seq(Offsets) /\ Len(R) = n + 1
      /\ (\A k \in 1 .. n : R[k] = O[k]) /\ R[n + 1] = d.offset
  <2>1. /\ Append(O, d.offset) \in Seq(Offsets) /\ Len(Append(O, d.offset)) = Len(O) + 1
        /\ (\A k \in 1 .. Len(O) : Append(O, d.offset)[k] = O[k])
        /\ Append(O, d.offset)[Len(O) + 1] = d.offset
    BY <1>4, <1>7, AppendProperties
  <2>2. QED
    BY <1>7, <2>1
<1> HIDE DEF R
<1>9. \A k \in 1 .. n + 1 : L[k] = R[k]
  <2>1. \A k \in 1 .. n + 1 : k \in 1 .. n \/ k = n + 1
    BY <1>1
  <2>2. ASSUME NEW k \in 1 .. n PROVE L[k] = R[k]
    <3>1. k \in 1 .. n + 1
      BY <1>1
    <3>2. L[k] = t[k].offset /\ O[k] = s[k].offset
      BY <1>6, <3>1
    <3>3. QED
      BY <1>2, <1>8, <3>2
  <2>3. L[n + 1] = R[n + 1]
    <3>1. n + 1 \in 1 .. n + 1
      BY <1>1
    <3>2. L[n + 1] = t[n + 1].offset
      BY <1>6, <3>1
    <3>3. QED
      BY <1>2, <1>8, <3>2
  <2>4. QED
    BY <2>1, <2>2, <2>3
<1>10. L = R
  BY <1>7, <1>8, <1>9, SeqEqual
<1>11. QED
  BY <1>7, <1>10 DEF L, R, O, t

(* A file of zeros and the one that differs in the hits differ in them.    *)
LEMMA ByteDiffIsHits ==
    ASSUME section \in Sections, job = "diff",
           NEW zeros, zeros = [i \in 1 .. Size |-> 0]
    PROVE  OffsetsOf(ByteDiff(zeros, Changed(zeros))) = Ascending(Hits)
<1> DEFINE N == Size
           S == Seq(ByteDifference)
           new == Changed(zeros)
           D(n) == [offset |-> n - 1, old |-> zeros[n], new |-> new[n]]
           Round(s, n) == IF zeros[n] = new[n] THEN s ELSE Append(s, D(n))
           h == [x \in S \X (1 .. N) |-> Round(x[1], x[2])]
           Def(f) == f = [n \in 0 .. N |-> IF n = 0 THEN << >> ELSE Round(f[n - 1], n)]
           g == CHOOSE f : Def(f)
<1>1. N \in Nat /\ N >= 1
  BY SizeAssumption
<1>2. /\ zeros \in Seq({0, 1}) /\ Len(zeros) = N
      /\ new \in Seq({0, 1}) /\ Len(new) = N
  <2>1. new = [i \in 1 .. Size |-> IF section[i - 1] = 0 THEN zeros[i] ELSE 1 - zeros[i]]
    BY DEF Changed
  <2> HIDE DEF new
  <2>2. zeros \in [1 .. Size -> {0, 1}] /\ new \in [1 .. Size -> {0, 1}]
    BY <2>1
  <2>3. QED
    BY <1>1, <2>2
<1>3. Common(zeros, new) = N
  <2>1. Min({N}) = N
    BY <1>1 DEF Min
  <2>2. {Len(zeros), Len(new)} = {N}
    BY <1>2
  <2>3. QED
    BY <2>1, <2>2, Zenon DEF Common
<1>4. ASSUME NEW n \in 1 .. N
      PROVE  /\ n - 1 \in Offsets /\ n - 1 + 1 = n
             /\ zeros[n] = new[n] <=> n - 1 \notin Hits
             /\ D(n) \in ByteDifference /\ D(n).offset = n - 1
  <2>1. n - 1 \in Offsets /\ n - 1 + 1 = n
    BY <1>1 DEF Offsets
  <2>2. section[n - 1] \in Nat
    BY <2>1 DEF Sections
  <2>3. zeros[n] = 0 /\ new[n] = IF section[n - 1] = 0 THEN 0 ELSE 1
    BY DEF Changed
  <2>4. n - 1 \in Hits <=> section[n - 1] > 0
    BY <2>1 DEF Hits, Hit
  <2> HIDE DEF new
  <2>5. zeros[n] = new[n] <=> n - 1 \notin Hits
    BY <2>2, <2>3, <2>4
  <2>6. zeros[n] \in {0, 1} /\ new[n] \in {0, 1}
    BY <2>3
  <2>7. D(n) \in ByteDifference /\ D(n).offset = n - 1
    BY <2>1, <2>6 DEF ByteDifference
  <2>8. QED
    BY <2>1, <2>5, <2>7
<1>5. ByteDiff(zeros, new) = (CHOOSE f : f = [n \in 0 .. Common(zeros, new) |->
                                 IF n = 0 THEN << >> ELSE Round(f[n - 1], n)])[Common(zeros, new)]
  <2> HIDE DEF new
  <2>1. QED
    BY DEF ByteDiff
<1>6. ByteDiff(zeros, new) = g[N]
  <2> HIDE DEF new, Round
  <2>1. QED
    BY <1>3, <1>5
<1> HIDE DEF new
<1>7. \A s \in S, n \in 1 .. N : Round(s, n) \in S
  <2> HIDE DEF D
  <2>1. QED
    BY <1>4, AppendProperties
<1>8. << >> \in S
  BY EmptySeq
<1> HIDE DEF Round
<1>9. h \in [S \X (1 .. N) -> S]
  BY <1>7
<1>10. \E f : Def(f)
  <2>1. PICK f : Iterates(f, S, << >>, N, h)
    <3> HIDE DEF h, S, N
    <3>1. QED
      BY <1>1, <1>8, <1>9, Recursion
  <2> HIDE DEF S, N
  <2>2. ASSUME NEW n \in 0 .. N
        PROVE  f[n] = IF n = 0 THEN << >> ELSE Round(f[n - 1], n)
    <3>1. CASE n = 0
      BY <2>1, <3>1 DEF Iterates
    <3>2. CASE n # 0
      <4>1. n \in 1 .. N /\ n - 1 \in 0 .. N
        BY <1>1, <3>2
      <4>2. f[n - 1] \in S
        BY <2>1, <4>1 DEF Iterates
      <4>3. <<f[n - 1], n>> \in S \X (1 .. N)
        BY <4>1, <4>2
      <4>4. h[<<f[n - 1], n>>] = Round(f[n - 1], n)
        BY <4>3
      <4>5. QED
        BY <2>1, <3>2, <4>1, <4>4 DEF Iterates
    <3>3. QED
      BY <3>1, <3>2
  <2>3. f = [n \in 0 .. N |-> IF n = 0 THEN << >> ELSE Round(f[n - 1], n)]
    BY <2>1, <2>2 DEF Iterates
  <2>4. QED
    BY <2>3
<1>11. Def(g)
  BY <1>10
<1> HIDE DEF g
<1>12. \A n \in 0 .. N : g[n] \in S /\ OffsetsOf(g[n]) = Ascending(HitsBelow(n))
  <2> DEFINE P == {n \in 0 .. N : g[n] \in S /\ OffsetsOf(g[n]) = Ascending(HitsBelow(n))}
  <2>1. 0 \in P
    <3>1. 0 \in 0 .. N
      BY <1>1
    <3>2. g[0] = << >>
      BY <1>11, <3>1
    <3>3. OffsetsOf(<< >>) = << >>
      BY DEF OffsetsOf
    <3>4. Ascending(HitsBelow(0)) = << >>
      BY BelowEnds, AscendingEmpty
    <3>5. QED
      BY <1>8, <3>1, <3>2, <3>3, <3>4
  <2>2. ASSUME NEW n \in 1 .. N, n - 1 \in P PROVE n \in P
    <3>1. n \in 0 .. N /\ n # 0
      BY <1>1
    <3>2. g[n] = Round(g[n - 1], n)
      BY <1>11, <3>1
    <3>3. g[n - 1] \in S /\ OffsetsOf(g[n - 1]) = Ascending(HitsBelow(n - 1))
      BY <2>2
    <3>4. g[n] \in S
      BY <1>7, <3>2, <3>3
    <3>5. n - 1 \in Offsets /\ n - 1 + 1 = n /\ (zeros[n] = new[n] <=> n - 1 \notin Hits)
      BY <1>4
    <3>6. CASE zeros[n] = new[n]
      <4>1. g[n] = g[n - 1]
        BY <3>2, <3>6 DEF Round
      <4>2. HitsBelow(n - 1 + 1) = HitsBelow(n - 1)
        BY <3>5, <3>6, BelowNext
      <4>3. OffsetsOf(g[n]) = Ascending(HitsBelow(n))
        BY <3>3, <3>5, <4>1, <4>2
      <4>4. QED
        BY <3>1, <3>4, <4>3
    <3>7. CASE zeros[n] # new[n]
      <4>1. g[n] = Append(g[n - 1], D(n))
        BY <3>2, <3>7 DEF Round
      <4>2. D(n) \in ByteDifference /\ D(n).offset = n - 1
        BY <1>4
      <4> HIDE DEF D
      <4>3. OffsetsOf(Append(g[n - 1], D(n))) = Append(OffsetsOf(g[n - 1]), D(n).offset)
        BY <3>3, <4>2, OffsetsAppend
      <4>4. Ascending(HitsBelow(n - 1 + 1)) = Append(Ascending(HitsBelow(n - 1)), n - 1)
        BY <3>5, <3>7, BelowNext
      <4>5. OffsetsOf(g[n]) = Ascending(HitsBelow(n))
        BY <3>3, <3>5, <4>1, <4>2, <4>3, <4>4
      <4>6. QED
        BY <3>1, <3>4, <4>5
    <3>8. QED
      BY <3>6, <3>7
  <2>3. \A n \in 0 .. N : n \in P
    <3> HIDE DEF P
    <3>1. QED
      BY <1>1, <2>1, <2>2, Induction
  <2>4. QED
    BY <2>3
<1>13. OffsetsOf(g[N]) = Ascending(HitsBelow(Size))
  BY <1>1, <1>12
<1>14. QED
  BY <1>6, <1>13, BelowEnds DEF new

-----------------------------------------------------------------------------
(* The chunks of parallel_for.                                             *)

LEMMA SizesAre ==
    /\ Size \in Nat /\ 1 <= Size /\ Lookahead \in Nat \ {0} /\ MinScanChunk \in Nat \ {0}
    /\ NumThreads \in Nat \ {0} /\ Offsets = 0 .. Size - 1 /\ Hits \in SUBSET (0 .. Size - 1)
<1>1. Cardinality(Workers) \in Nat /\ Cardinality(Workers) # 0
  BY WorkersAssumption, FS_CardinalityType, FS_EmptySet
<1>2. QED
  BY <1>1, SizeAssumption DEF NumThreads, Offsets, Hits

(* A chunk is not empty, and none reaches beyond the whole.                *)
LEMMA ChunkIsInside ==
    ASSUME Total \in 0 .. Size, next \in 0 .. Total
    PROVE  /\ ChunkEnd \in next .. Total /\ (next < Total => next < ChunkEnd)
           /\ ChunkEnd \in 0 .. Size
<1> DEFINE share == (Total + NumThreads - 1) \div NumThreads
<1>1. Total \in Nat /\ next \in Nat /\ next <= Total /\ Total <= Size /\ Size \in Nat
  BY SizesAre
<1>2. share \in Int
  BY <1>1, SizesAre
<1>3. MinChunk \in Nat \ {0}
  BY SizesAre DEF MinChunk
<1>4. ChunkSize = IF MinChunk >= share THEN MinChunk ELSE share
  BY DEF ChunkSize
<1> HIDE DEF share
<1>5. ChunkSize \in Nat \ {0}
  BY <1>2, <1>3, <1>4
<1>6. ChunkEnd = IF next + ChunkSize <= Total THEN next + ChunkSize ELSE Total
  BY DEF ChunkEnd
<1>7. QED
  BY <1>1, <1>5, <1>6

(* The hits found, in order, are as many as there are bytes, or fewer.     *)
LEMMA MergedType ==
    ASSUME AllFound \subseteq Hits
    PROVE  /\ Merged \in Seq(Offsets) /\ Len(Merged) \in 0 .. Size
           /\ DOMAIN Merged = 1 .. Len(Merged)
           /\ {Merged[k] : k \in 1 .. Len(Merged)} = AllFound
<1>1. AllFound \in SUBSET (0 .. Size - 1) /\ Size \in Nat
  BY SizesAre
<1> DEFINE A == Ascending(AllFound)
<1>2. /\ Cardinality(AllFound) \in 0 .. Size
      /\ A \in Seq(AllFound) /\ Len(A) = Cardinality(AllFound)
      /\ DOMAIN A = 1 .. Cardinality(AllFound)
      /\ {A[k] : k \in 1 .. Cardinality(AllFound)} = AllFound
  BY <1>1, AscendingLists
<1>3. AllFound \subseteq Offsets
  BY <1>1, SizesAre
<1> HIDE DEF A
<1>4. A \in Seq(Offsets)
  BY <1>2, <1>3
<1>5. QED
  BY <1>2, <1>4 DEF A, Merged

LEMMA TotalType ==
    ASSUME IInv
    PROVE  Total \in 0 .. Size /\ next \in 0 .. Total
<1>1. Total \in 0 .. Size
  <2>1. CASE phase = "scan"
    BY <2>1, SizesAre DEF Total
  <2>2. CASE phase # "scan"
    <3>1. AllFound \subseteq Hits /\ candidates = Merged
      BY <2>2 DEF IInv, FoundInv, MeasuredInv, HitsHandled
    <3>2. QED
      BY <2>2, <3>1, MergedType DEF Total
  <2>3. QED
    BY <2>1, <2>2
<1>2. next \in Nat /\ next <= Total
  BY DEF IInv, TypeOK, WorkerTypes, ChunksInv
<1>3. QED
  BY <1>1, <1>2

(* What a worker holds is of its chunk, and no other worker's.             *)
LEMMA WorkerFacts ==
    ASSUME IInv, NEW w \in Workers, wpc[w] # "free"
    PROVE  /\ at[w] \in Nat /\ end[w] \in Nat /\ at[w] <= end[w] /\ end[w] <= next
           /\ end[w] <= Size /\ next \in Nat /\ next <= Total /\ Total <= Size /\ Total \in Nat
           /\ wpc[w] # "body" => at[w] < end[w]
           /\ \A v \in Workers \ {w} : wpc[v] # "free" =>
                 /\ at[v] \in Nat /\ end[v] \in Nat /\ at[v] <= end[v]
                 /\ wpc[v] # "body" => at[v] < end[v]
                 /\ end[v] <= at[w] \/ end[w] <= at[v]
<1>1. Total \in 0 .. Size /\ next \in 0 .. Total
  BY TotalType
<1>2. \A v \in Workers : at[v] \in Nat /\ end[v] \in Nat
  BY DEF IInv, TypeOK, WorkerTypes
<1>3. \A v \in Workers : wpc[v] # "free" => InChunk(v)
  BY DEF IInv, ChunksInv
<1>4. \A v \in Workers \ {w} : wpc[v] # "free" => Apart(v, w)
  BY DEF IInv, ChunksInv
<1>5. QED
  BY <1>1, <1>2, <1>3, <1>4, SizesAre DEF InChunk, Apart

(* The index a worker is at is pending for it alone.                       *)
LEMMA AtIsOwn ==
    ASSUME IInv, NEW w \in Workers, wpc[w] # "free", at[w] < end[w]
    PROVE  /\ at[w] \in 0 .. next - 1 /\ at[w] \in Offsets
           /\ \A v \in Workers \ {w} : at[w] \notin Pending(v) /\ (wpc[v] = "count" => at[v] # at[w])
<1>1. at[w] \in 0 .. next - 1 /\ at[w] \in Offsets
  BY WorkerFacts, SizesAre
<1>2. ASSUME NEW v \in Workers \ {w} PROVE at[w] \notin Pending(v) /\ (wpc[v] = "count" => at[v] # at[w])
  <2>1. CASE wpc[v] = "free"
    BY <2>1 DEF Pending
  <2>2. CASE wpc[v] # "free"
    BY <2>2, WorkerFacts DEF Pending
  <2>3. QED
    BY <2>1, <2>2
<1>3. QED
  BY <1>1, <1>2

-----------------------------------------------------------------------------
(* What each step leaves of the indices handled and counted.               *)

LEMMA OthersPending ==
    ASSUME NEW v, wpc'[v] = wpc[v], at'[v] = at[v], end'[v] = end[v]
    PROVE  Pending(v)' = Pending(v)
  BY DEF Pending

LEMMA TakeHandles ==
    ASSUME IInv, NEW w \in Workers, Take(w)
    PROVE  Handled' = Handled /\ Counted' = Counted
<1>1. /\ Total \in 0 .. Size /\ next \in 0 .. Total /\ next < Total
      /\ next' = ChunkEnd /\ ChunkEnd \in next .. Total
  BY TotalType, ChunkIsInside DEF Take
<1>2. next \in Nat /\ next' \in Nat /\ next <= next'
  BY <1>1, SizesAre
<1>3. /\ wpc[w] = "free" /\ wpc'[w] = "body" /\ at'[w] = next /\ end'[w] = next'
      /\ \A v \in Workers \ {w} : wpc'[v] = wpc[v] /\ at'[v] = at[v] /\ end'[v] = end[v]
  BY DEF Take, IInv, TypeOK, WorkerTypes
<1>4. Pending(w)' = next .. next' - 1 /\ Pending(w) = {}
  BY <1>3 DEF Pending
<1>5. \A v \in Workers \ {w} : Pending(v)' = Pending(v)
  BY <1>3, OthersPending
<1>6. \A i : i \in Handled' <=> i \in 0 .. next' - 1 /\ \A v \in Workers : i \notin Pending(v)'
  BY DEF Handled
<1>7. \A i : i \in Handled <=> i \in 0 .. next - 1 /\ \A v \in Workers : i \notin Pending(v)
  BY DEF Handled
<1>8. \A i : i \in 0 .. next' - 1 /\ i \notin next .. next' - 1 <=> i \in 0 .. next - 1
  BY <1>2
<1>9. ASSUME NEW i PROVE i \in Handled' <=> i \in Handled
  <2>1. (\A v \in Workers : i \notin Pending(v)') <=>
           i \notin next .. next' - 1 /\ \A v \in Workers \ {w} : i \notin Pending(v)
    BY <1>4, <1>5, Zenon
  <2>2. (\A v \in Workers : i \notin Pending(v)) <=>
           \A v \in Workers \ {w} : i \notin Pending(v)
    BY <1>4, Zenon
  <2>3. QED
    BY <1>6, <1>7, <1>8, <2>1, <2>2, Zenon
<1>10. Handled' = Handled
  BY <1>9 DEF Handled
<1>11. QED
  BY <1>3, <1>10 DEF Counted

(* A step of one worker within its chunk.                                  *)
LEMMA StepHandles ==
    ASSUME NEW w \in Workers, next' = next, Pending(w)' = Pending(w),
           \A v \in Workers \ {w} : wpc'[v] = wpc[v] /\ at'[v] = at[v] /\ end'[v] = end[v]
    PROVE  Handled' = Handled
<1>1. \A v \in Workers : Pending(v)' = Pending(v)
  BY OthersPending
<1>2. QED
  BY <1>1 DEF Handled

LEMMA OneHandled ==
    ASSUME IInv, NEW w \in Workers, wpc[w] \in {"body", "push"}, at[w] < end[w], next' = next,
           Pending(w)' = Pending(w) \ {at[w]},
           \A v \in Workers \ {w} : wpc'[v] = wpc[v] /\ at'[v] = at[v] /\ end'[v] = end[v]
    PROVE  Handled' = Handled \cup {at[w]} /\ at[w] \notin Handled
<1>1. \A v \in Workers \ {w} : Pending(v)' = Pending(v)
  BY OthersPending
<1>2. /\ at[w] \in 0 .. next - 1
      /\ \A v \in Workers \ {w} : at[w] \notin Pending(v)
  BY AtIsOwn
<1>3. at[w] \in Pending(w)
  BY WorkerFacts DEF Pending
<1>4. \A i : i \in Handled' <=> i \in 0 .. next - 1 /\ \A v \in Workers : i \notin Pending(v)'
  BY DEF Handled
<1>5. \A i : i \in Handled <=> i \in 0 .. next - 1 /\ \A v \in Workers : i \notin Pending(v)
  BY DEF Handled
<1>6. \A i : i \in Handled' <=> i \in Handled \cup {at[w]}
  BY <1>1, <1>2, <1>3, <1>4, <1>5
<1>7. Handled' = Handled \cup {at[w]}
  BY <1>6 DEF Handled
<1>8. QED
  BY <1>3, <1>7 DEF Handled

-----------------------------------------------------------------------------
(* What a step keeps that leaves most alone.                               *)

LEMMA HitsStay ==
    ASSUME job' = job, section' = section
    PROVE  Hits' = Hits /\ (\A i : Hit(i)' <=> Hit(i)) /\ (\A i : Fn(i)' = Fn(i))
  BY DEF Hits, Hit, Fn

LEMMA FoundStays ==
    ASSUME FoundInv, UNCHANGED <<found, raced>>, HitsHandled' = HitsHandled,
           \A w \in Workers : wpc'[w] = "push" \/ (wpc'[w] = "count" /\ phase' = "scan") =>
                                  Hit(at[w])' 
    PROVE  FoundInv'
<1>1. AllFound' = AllFound
  BY DEF AllFound, FoundAt
<1>2. FoundOnce'
  BY DEF FoundInv, FoundOnce
<1>3. AllFound \subseteq HitsHandled /\ (~raced => HitsHandled \subseteq AllFound)
  BY DEF FoundInv
<1>4. AllFound' \subseteq HitsHandled' /\ (~raced' => HitsHandled' \subseteq AllFound')
  BY <1>1, <1>3
<1>5. QED
  BY <1>2, <1>4 DEF FoundInv

LEMMA MeasuredStays ==
    ASSUME MeasuredInv, UNCHANGED <<job, section, phase, found, candidates, measured, result>>,
           phase = "measure" => Handled' = Handled
    PROVE  MeasuredInv'
<1>1. Merged' = Merged /\ (\A i : Fn(i)' = Fn(i))
  BY HitsStay DEF Merged, AllFound, FoundAt
<1>2. Resolved(ByStart(measured))' = Resolved(ByStart(measured))
  BY DEF Resolved, ByStart
<1>3. phase = "measure" =>
         {Fn(candidates[i + 1]) : i \in Handled}' = {Fn(candidates[i + 1]) : i \in Handled}
  BY <1>1
<1>4. {Fn(candidates[k]) : k \in DOMAIN candidates}' = {Fn(candidates[k]) : k \in DOMAIN candidates}
  BY <1>1
<1>5. QED
  BY <1>1, <1>2, <1>3, <1>4 DEF MeasuredInv

LEMMA CountStays ==
    ASSUME CountInv, UNCHANGED <<job, section, phase, count>>,
           phase = "scan" /\ job = "diff" => Counted' \cap Hits = Counted \cap Hits,
           phase = "measure" => Counted' = Counted,
           \A w \in Workers : wpc'[w] = "report" => wpc[w] = "report" /\ seen'[w] = seen[w]
    PROVE  CountInv'
<1>1. Hits' = Hits
  BY HitsStay
<1>2. phase' = "scan" => count' = IF job' = "diff" THEN Cardinality(Counted' \cap Hits') ELSE 0
  BY <1>1 DEF CountInv
<1>3. phase' = "measure" => count' = Cardinality(Counted')
  BY DEF CountInv
<1>4. ASSUME NEW w \in Workers, wpc'[w] = "report"
      PROVE  seen'[w] <= IF phase' = "scan" THEN Size ELSE count'
  BY <1>4 DEF CountInv
<1>5. QED
  BY <1>2, <1>3, <1>4 DEF CountInv

LEMMA ProgressStays ==
    ASSUME ProgressInv, UNCHANGED <<job, phase, candidates>>,
           progress'.current = progress.current, progress'.total = progress.total,
           progress'.completed = progress.completed
    PROVE  ProgressInv'
  BY DEF ProgressInv

(* A worker that goes on within its chunk.                                 *)
LEMMA ChunksStep ==
    ASSUME IInv, NEW w \in Workers, wpc[w] # "free", UNCHANGED <<job, phase, next, candidates, end>>,
           at'[w] \in Nat, at[w] <= at'[w], at'[w] <= end[w],
           wpc'[w] \notin {"free", "body"} => at'[w] < end[w],
           wpc'[w] # "free" => OfPhase(w)',
           \A v \in Workers \ {w} : wpc'[v] = wpc[v] /\ at'[v] = at[v]
    PROVE  ChunksInv'
<1>1. Total' = Total
  BY DEF Total
<1>2. next' <= Total' /\ (phase' = "measure" => job' = "functions")
  BY <1>1 DEF IInv, ChunksInv
<1>3. /\ at[w] \in Nat /\ end[w] \in Nat /\ at[w] <= end[w] /\ end[w] <= next
      /\ \A v \in Workers \ {w} : wpc[v] # "free" =>
            /\ at[v] \in Nat /\ end[v] \in Nat
            /\ end[v] <= at[w] \/ end[w] <= at[v]
  BY WorkerFacts
<1>4. ASSUME NEW u \in Workers, wpc'[u] # "free" PROVE InChunk(u)' /\ OfPhase(u)'
  <2>1. CASE u = w
    BY <1>3, <1>4, <2>1 DEF InChunk
  <2>2. CASE u # w
    <3>1. wpc'[u] = wpc[u] /\ at'[u] = at[u] /\ InChunk(u) /\ OfPhase(u)
      BY <1>4, <2>2 DEF IInv, ChunksInv
    <3>2. QED
      BY <3>1 DEF InChunk, OfPhase
  <2>3. QED
    BY <2>1, <2>2
<1>5. ASSUME NEW u \in Workers, wpc'[u] # "free", NEW v \in Workers \ {u}, wpc'[v] # "free"
      PROVE  Apart(v, u)'
  <2>1. CASE u = w
    <3>1. wpc[v] # "free" /\ at'[v] = at[v]
      BY <1>5, <2>1
    <3>2. at[v] \in Nat /\ end[v] \in Nat /\ (end[v] <= at[w] \/ end[w] <= at[v])
      BY <1>3, <2>1, <3>1
    <3>3. QED
      BY <1>3, <2>1, <3>1, <3>2 DEF Apart
  <2>2. CASE v = w
    <3>1. wpc[u] # "free" /\ at'[u] = at[u] /\ u \in Workers \ {w}
      BY <1>5, <2>2
    <3>2. at[u] \in Nat /\ end[u] \in Nat /\ (end[u] <= at[w] \/ end[w] <= at[u])
      BY <1>3, <3>1
    <3>3. QED
      BY <1>3, <2>2, <3>1, <3>2 DEF Apart
  <2>3. CASE u # w /\ v # w
    <3>1. wpc[u] # "free" /\ wpc[v] # "free" /\ at'[u] = at[u] /\ at'[v] = at[v]
      BY <1>5, <2>3
    <3>2. Apart(v, u)
      BY <1>5, <3>1 DEF IInv, ChunksInv
    <3>3. QED
      BY <3>1, <3>2 DEF Apart
  <2>4. QED
    BY <2>1, <2>2, <2>3
<1>6. QED
  BY <1>2, <1>4, <1>5 DEF ChunksInv

-----------------------------------------------------------------------------
(* The inductive invariant, action by action.                              *)

LEMMA TakeKeeps ==
    ASSUME IInv, NEW w \in Workers, Take(w)
    PROVE  IInv'
<1>1. /\ Total \in 0 .. Size /\ next \in 0 .. Total /\ next < Total
      /\ next' = ChunkEnd /\ ChunkEnd \in next .. Total /\ next < ChunkEnd /\ ChunkEnd \in 0 .. Size
  BY TotalType, ChunkIsInside DEF Take
<1>2. next \in Nat /\ next' \in Nat /\ next < next' /\ next' <= Size /\ Size \in Nat
  BY <1>1, SizesAre
<1>3. UNCHANGED <<job, section, bucket, phase, seen, found, candidates, measured, result, count,
                  progress, raced, corrupt>>
  BY DEF Take
<1>4. /\ wpc[w] = "free" /\ wpc'[w] = "body" /\ at'[w] = next /\ end'[w] = next'
      /\ \A v \in Workers \ {w} : wpc'[v] = wpc[v] /\ at'[v] = at[v] /\ end'[v] = end[v]
  BY DEF Take, IInv, TypeOK, WorkerTypes
<1>5. Handled' = Handled /\ Counted' = Counted
  BY TakeHandles
<1>6. TypeOK'
  <2>1. WorkerTypes'
    BY <1>1, <1>2 DEF Take, IInv, TypeOK, WorkerTypes
  <2>2. QED
    BY <1>3, <2>1 DEF IInv, TypeOK, ScanTypes, ResultTypes, ProgressTypes
<1>7. ChunksInv'
  <2>1. Total' = Total
    BY <1>3 DEF Total
  <2>2. next' <= Total' /\ (phase' = "measure" => job' = "functions")
    BY <1>1, <1>3, <2>1 DEF IInv, ChunksInv
  <2>3. ASSUME NEW u \in Workers, wpc'[u] # "free" PROVE InChunk(u)' /\ OfPhase(u)'
    <3>1. CASE u = w
      BY <1>2, <1>3, <1>4, <3>1 DEF InChunk, OfPhase, Take
    <3>2. CASE u # w
      <4>1. wpc[u] # "free" /\ wpc'[u] = wpc[u] /\ at'[u] = at[u] /\ end'[u] = end[u]
        BY <1>4, <2>3, <3>2
      <4>2. OfPhase(u) /\ InChunk(u) /\ end[u] \in Nat
        BY <4>1, WorkerFacts DEF IInv, ChunksInv
      <4>3. QED
        BY <1>2, <1>3, <4>1, <4>2 DEF InChunk, OfPhase
    <3>3. QED
      BY <3>1, <3>2
  <2>4. ASSUME NEW u \in Workers \ {w}, wpc[u] # "free"
        PROVE  end[u] \in Nat /\ end[u] <= next
    BY <2>4, WorkerFacts
  <2>5. ASSUME NEW u \in Workers, wpc'[u] # "free", NEW v \in Workers \ {u}, wpc'[v] # "free"
        PROVE  Apart(v, u)'
    <3>1. CASE u = w
      BY <1>4, <2>4, <2>5, <3>1 DEF Apart
    <3>2. CASE v = w
      BY <1>4, <2>4, <2>5, <3>2 DEF Apart
    <3>3. CASE u # w /\ v # w
      <4>1. /\ wpc[u] # "free" /\ at'[u] = at[u] /\ end'[u] = end[u]
            /\ wpc[v] # "free" /\ at'[v] = at[v] /\ end'[v] = end[v]
        BY <1>4, <2>5, <3>3
      <4>2. Apart(v, u)
        BY <2>5, <4>1 DEF IInv, ChunksInv
      <4>3. QED
        BY <4>1, <4>2 DEF Apart
    <3>4. QED
      BY <3>1, <3>2, <3>3
  <2>6. QED
    BY <2>2, <2>3, <2>5 DEF ChunksInv
<1>8. FoundInv'
  <2>1. HitsHandled' = HitsHandled
    BY <1>3, <1>5, HitsStay DEF HitsHandled
  <2>2. ASSUME NEW v \in Workers, wpc'[v] = "push" \/ (wpc'[v] = "count" /\ phase' = "scan")
        PROVE  Hit(at[v])'
    <3>1. wpc'[v] = wpc[v] /\ at'[v] = at[v]
      BY <1>4, <2>2
    <3>2. Hit(at[v])
      BY <1>3, <2>2, <3>1 DEF IInv, FoundInv
    <3>3. QED
      BY <1>3, <3>1, <3>2 DEF Hit
  <2>3. QED
    BY <1>3, <2>1, <2>2, FoundStays DEF IInv
<1>9. MeasuredInv'
  BY <1>3, <1>5, MeasuredStays DEF IInv
<1>10. CountInv'
  <2>1. \A v \in Workers : wpc'[v] = "report" => wpc[v] = "report" /\ seen'[v] = seen[v]
    BY <1>3, <1>4
  <2>2. QED
    BY <1>3, <1>5, <2>1, CountStays DEF IInv
<1>11. ProgressInv'
  BY <1>3, ProgressStays DEF IInv
<1>12. QED
  BY <1>6, <1>7, <1>8, <1>9, <1>10, <1>11 DEF IInv

LEMMA FinishChunkKeeps ==
    ASSUME IInv, NEW w \in Workers, FinishChunk(w)
    PROVE  IInv'
<1>1. UNCHANGED <<job, section, bucket, phase, next, at, end, seen, found, candidates, measured,
                  result, count, progress, raced, corrupt>>
  BY DEF FinishChunk
<1>2. /\ wpc[w] = "body" /\ wpc'[w] = "free" /\ at[w] = end[w]
      /\ \A v \in Workers \ {w} : wpc'[v] = wpc[v] /\ at'[v] = at[v] /\ end'[v] = end[v]
  BY DEF FinishChunk, IInv, TypeOK, WorkerTypes
<1>3. at[w] \in Nat /\ end[w] \in Nat
  BY <1>2, WorkerFacts
<1>4. Handled' = Handled /\ Counted' = Counted
  <2>1. Pending(w) = {} /\ Pending(w)' = {}
    BY <1>1, <1>2, <1>3 DEF Pending
  <2>2. Handled' = Handled
    BY <1>1, <1>2, <2>1, StepHandles
  <2>3. QED
    BY <1>1, <1>2, <2>2 DEF Counted
<1>5. TypeOK'
  <2>1. WorkerTypes'
    BY <1>1 DEF FinishChunk, IInv, TypeOK, WorkerTypes
  <2>2. QED
    BY <1>1, <2>1 DEF IInv, TypeOK, ScanTypes, ResultTypes, ProgressTypes
<1>6. ChunksInv'
  BY <1>1, <1>2, <1>3, ChunksStep
<1>7. FoundInv'
  <2>1. HitsHandled' = HitsHandled
    BY <1>1, <1>4, HitsStay DEF HitsHandled
  <2>2. ASSUME NEW v \in Workers, wpc'[v] = "push" \/ (wpc'[v] = "count" /\ phase' = "scan")
        PROVE  Hit(at[v])'
    <3>1. wpc'[v] = wpc[v] /\ at'[v] = at[v]
      BY <1>2, <2>2
    <3>2. Hit(at[v])
      BY <1>1, <2>2, <3>1 DEF IInv, FoundInv
    <3>3. QED
      BY <1>1, <3>1, <3>2 DEF Hit
  <2>3. QED
    BY <1>1, <2>1, <2>2, FoundStays DEF IInv
<1>8. MeasuredInv'
  BY <1>1, <1>4, MeasuredStays DEF IInv
<1>9. CountInv'
  <2>1. \A v \in Workers : wpc'[v] = "report" => wpc[v] = "report" /\ seen'[v] = seen[v]
    BY <1>1, <1>2
  <2>2. QED
    BY <1>1, <1>4, <2>1, CountStays DEF IInv
<1>10. ProgressInv'
  BY <1>1, ProgressStays DEF IInv
<1>11. QED
  BY <1>5, <1>6, <1>7, <1>8, <1>9, <1>10 DEF IInv

(* A bucket holds no offset twice, and so no more than there are.          *)
LEMMA BucketLength ==
    ASSUME IInv, NEW b \in Buckets
    PROVE  found[b] \in Seq(Offsets) /\ Len(found[b]) \in 0 .. Size
<1> DEFINE F == found[b]
           n == Len(F)
<1>1. F \in Seq(Offsets)
  BY DEF IInv, TypeOK, ResultTypes
<1> HIDE DEF F
<1>2. n \in Nat /\ F \in [1 .. n -> Offsets] /\ DOMAIN F = 1 .. n
  BY <1>1, LenProperties
<1>3. \A k, l \in 1 .. n : F[k] = F[l] => k = l
  BY <1>2 DEF IInv, FoundInv, FoundOnce, F
<1>4. F \in Injection(1 .. n, Offsets)
  <2> HIDE DEF n
  <2>1. QED
    BY <1>2, <1>3 DEF Injection, IsInjective
<1>5. IsFiniteSet(Offsets) /\ Cardinality(Offsets) \in 0 .. Size
  <2>1. Offsets \in SUBSET (0 .. Size - 1) /\ Size \in Nat
    BY SizesAre
  <2>2. QED
    BY <2>1, AscendingLists
<1>6. Cardinality(1 .. n) <= Cardinality(Offsets)
  BY <1>4, <1>5, FS_Injection
<1>7. Cardinality(1 .. n) = n
  <2> HIDE DEF n
  <2>1. Cardinality(1 .. n) = IF 1 > n THEN 0 ELSE n - 1 + 1
    BY <1>2, FS_Interval
  <2>2. QED
    BY <1>2, <2>1
<1>8. n <= Size
  <2> HIDE DEF n
  <2>1. QED
    BY <1>2, <1>5, <1>6, <1>7, SizesAre
<1>9. QED
  BY <1>1, <1>2, <1>8, SizesAre DEF F

LEMMA HitsStep ==
    ASSUME NEW w \in Workers, UNCHANGED <<job, section, next>>,
           \A i \in Hits : i \in Pending(w)' <=> i \in Pending(w),
           \A v \in Workers \ {w} : wpc'[v] = wpc[v] /\ at'[v] = at[v] /\ end'[v] = end[v]
    PROVE  Handled' \cap Hits = Handled \cap Hits
<1>1. \A v \in Workers \ {w} : Pending(v)' = Pending(v)
  BY OthersPending
<1>2. \A i \in Hits : \A v \in Workers : i \in Pending(v)' <=> i \in Pending(v)
  BY <1>1
<1>3. \A i \in Hits : i \in Handled' <=> i \in 0 .. next - 1 /\ \A v \in Workers : i \notin Pending(v)'
  BY DEF Handled
<1>4. \A i \in Hits : i \in Handled <=> i \in 0 .. next - 1 /\ \A v \in Workers : i \notin Pending(v)
  BY DEF Handled
<1>5. \A i \in Hits : i \in Handled' <=> i \in Handled
  BY <1>2, <1>3, <1>4, Zenon
<1>6. QED
  BY <1>5

(* The next hit of a chunk, or its end.                                    *)
LEMMA ScanToGoes ==
    ASSUME IInv, NEW w \in Workers, ScanTo(w)
    PROVE  /\ at'[w] \in Nat /\ at[w] <= at'[w] /\ at'[w] <= end[w] /\ at'[w] \in 0 .. Size
           /\ \A i \in Hits : ~(at[w] <= i /\ i < at'[w])
           /\ \/ wpc'[w] = "body" /\ wpc' = wpc /\ seen' = seen
              \/ /\ wpc'[w] = "push" /\ at'[w] < end[w] /\ Hit(at'[w])
                 /\ wpc' = [wpc EXCEPT ![w] = "push"]
                 /\ seen' = [seen EXCEPT ![w] = Len(found[bucket[w]])]
           /\ at' = [at EXCEPT ![w] = at'[w]]
<1> DEFINE hits == {i \in at[w] .. end[w] - 1 : Hit(i)}
<1>1. /\ wpc[w] = "body" /\ at[w] < end[w]
      /\ at \in [Workers -> 0 .. Size] /\ wpc \in [Workers -> {"free", "body", "push", "count", "read", "report"}]
  BY DEF ScanTo, IInv, TypeOK, WorkerTypes
<1>2. at[w] \in Nat /\ end[w] \in Nat /\ end[w] <= Size /\ Size \in Nat
  BY <1>1, WorkerFacts, SizesAre
<1>3. \A i \in Hits : Hit(i) /\ i \in Nat
  BY SizesAre DEF Hits
<1>4. CASE hits = {}
  <2>1. at' = [at EXCEPT ![w] = end[w]] /\ UNCHANGED <<wpc, seen>>
    BY <1>4 DEF ScanTo
  <2>2. at'[w] = end[w]
    BY <1>1, <2>1
  <2>3. ASSUME NEW i \in Hits, at[w] <= i, i < end[w] PROVE FALSE
    <3>1. i \in at[w] .. end[w] - 1 /\ Hit(i)
      BY <1>2, <1>3, <2>3
    <3>2. QED
      BY <1>4, <3>1
  <2>4. QED
    BY <1>1, <1>2, <2>1, <2>2, <2>3
<1>5. CASE hits # {}
  <2> DEFINE m == CHOOSE i \in hits : \A j \in hits : i <= j
  <2>1. /\ at' = [at EXCEPT ![w] = m]
        /\ seen' = [seen EXCEPT ![w] = Len(found[bucket[w]])]
        /\ wpc' = [wpc EXCEPT ![w] = "push"]
    BY <1>5 DEF ScanTo
  <2>2. \E i \in hits : \A j \in hits : i <= j
    <3>1. hits \in SUBSET Nat
      BY <1>2
    <3> HIDE DEF hits
    <3>2. QED
      BY <1>5, <3>1, LeastNumber
  <2>3. m \in hits /\ \A j \in hits : m <= j
    <3> HIDE DEF hits
    <3>1. QED
      BY <2>2
  <2>4. at'[w] = m /\ wpc'[w] = "push"
    <3> HIDE DEF m
    <3>1. QED
      BY <1>1, <2>1
  <2>5. m \in at[w] .. end[w] - 1 /\ Hit(m)
    <3> HIDE DEF m
    <3>1. QED
      BY <2>3
  <2>6. ASSUME NEW i \in Hits, at[w] <= i, i < m PROVE FALSE
    <3> HIDE DEF m
    <3>1. m \in Nat /\ m < end[w]
      BY <1>2, <2>5
    <3>2. i \in at[w] .. end[w] - 1 /\ Hit(i) /\ ~(m <= i)
      BY <1>2, <1>3, <2>6, <3>1
    <3>3. QED
      BY <2>3, <3>2
  <2> HIDE DEF m, hits
  <2>7. m \in Nat /\ at[w] <= m /\ m <= end[w] /\ m \in 0 .. Size /\ m < end[w]
    BY <1>2, <2>5
  <2>8. \A i \in Hits : ~(at[w] <= i /\ i < m)
    BY <2>6
  <2>9. /\ wpc'[w] = "push" /\ at'[w] < end[w] /\ Hit(at'[w])
        /\ wpc' = [wpc EXCEPT ![w] = "push"]
        /\ seen' = [seen EXCEPT ![w] = Len(found[bucket[w]])]
    BY <2>1, <2>4, <2>5, <2>7
  <2>10. QED
    BY <2>1, <2>4, <2>7, <2>8, <2>9, Zenon
<1>6. QED
  BY <1>4, <1>5

LEMMA ScanToKeeps ==
    ASSUME IInv, NEW w \in Workers, ScanTo(w)
    PROVE  IInv'
<1>1. UNCHANGED <<job, section, bucket, phase, next, end, found, candidates, measured, result,
                  count, progress, raced, corrupt>>
  BY DEF ScanTo
<1>2. /\ wpc[w] = "body" /\ wpc'[w] \in {"body", "push"} /\ phase = "scan"
      /\ \A v \in Workers \ {w} :
            wpc'[v] = wpc[v] /\ at'[v] = at[v] /\ end'[v] = end[v] /\ seen'[v] = seen[v]
  <2>1. \A v \in Workers \ {w} : wpc'[v] = wpc[v] /\ at'[v] = at[v] /\ seen'[v] = seen[v]
    BY ScanToGoes DEF IInv, TypeOK, WorkerTypes
  <2>2. QED
    BY <1>1, <2>1, ScanToGoes DEF ScanTo
<1>3. /\ at'[w] \in Nat /\ at[w] <= at'[w] /\ at'[w] <= end[w] /\ at'[w] \in 0 .. Size
      /\ wpc'[w] = "push" => at'[w] < end[w] /\ Hit(at'[w])
  BY ScanToGoes
<1>4. Handled' \cap Hits = Handled \cap Hits /\ Counted' \cap Hits = Counted \cap Hits
  <2>1. \A i \in Hits : i \in Pending(w)' <=> i \in Pending(w)
    <3>1. at[w] \in Nat /\ end[w] \in Nat /\ end'[w] = end[w]
      BY <1>1, <1>2, WorkerFacts
    <3>2. \A i \in Hits : i \in Nat /\ ~(at[w] <= i /\ i < at'[w])
      BY SizesAre, ScanToGoes
    <3>3. Pending(w)' = at'[w] .. end[w] - 1
      BY <1>2, <3>1 DEF Pending
    <3>4. Pending(w) = at[w] .. end[w] - 1
      BY <1>2 DEF Pending
    <3>5. QED
      BY <1>3, <3>1, <3>2, <3>3, <3>4
  <2>2. Handled' \cap Hits = Handled \cap Hits
    BY <1>1, <1>2, <2>1, HitsStep
  <2>3. \A v \in Workers : wpc'[v] = "count" <=> wpc[v] = "count"
    BY <1>2
  <2>4. \A v \in Workers : wpc[v] = "count" => at'[v] = at[v]
    BY <1>2
  <2>5. \A i \in Hits : i \in Counted' <=> i \in Counted
    BY <2>2, <2>3, <2>4 DEF Counted
  <2>6. QED
    BY <2>2, <2>5
<1>5. TypeOK'
  <2>1. WorkerTypes'
    <3>1. at' \in [Workers -> 0 .. Size]
      BY ScanToGoes DEF IInv, TypeOK, WorkerTypes
    <3>2. wpc' \in [Workers -> {"free", "body", "push", "count", "read", "report"}]
      BY ScanToGoes DEF IInv, TypeOK, WorkerTypes
    <3>3. seen' \in [Workers -> 0 .. Size]
      <4>1. bucket[w] \in Buckets
        BY DEF IInv, TypeOK, ScanTypes
      <4>2. Len(found[bucket[w]]) \in 0 .. Size
        BY <4>1, BucketLength
      <4>3. QED
        BY <4>2, ScanToGoes DEF IInv, TypeOK, WorkerTypes
    <3>4. QED
      BY <1>1, <3>1, <3>2, <3>3 DEF IInv, TypeOK, WorkerTypes
  <2>2. QED
    BY <1>1, <2>1 DEF IInv, TypeOK, ScanTypes, ResultTypes, ProgressTypes
<1>6. ChunksInv'
  <2>1. OfPhase(w)'
    BY <1>1, <1>2 DEF OfPhase
  <2>2. QED
    BY <1>1, <1>2, <1>3, <2>1, ChunksStep
<1>7. FoundInv'
  <2>1. HitsHandled' = HitsHandled
    BY <1>1, <1>2, <1>4, HitsStay DEF HitsHandled
  <2>2. ASSUME NEW v \in Workers, wpc'[v] = "push" \/ (wpc'[v] = "count" /\ phase' = "scan")
        PROVE  Hit(at[v])'
    <3>1. CASE v = w
      BY <1>1, <1>2, <1>3, <2>2, <3>1 DEF Hit
    <3>2. CASE v # w
      <4>1. wpc'[v] = wpc[v] /\ at'[v] = at[v]
        BY <1>2, <3>2
      <4>2. Hit(at[v])
        BY <1>1, <2>2, <4>1 DEF IInv, FoundInv
      <4>3. QED
        BY <1>1, <4>1, <4>2 DEF Hit
    <3>3. QED
      BY <3>1, <3>2
  <2>3. QED
    BY <1>1, <2>1, <2>2, FoundStays DEF IInv
<1>8. MeasuredInv'
  BY <1>1, <1>2, MeasuredStays DEF IInv
<1>9. CountInv'
  <2>1. \A v \in Workers : wpc'[v] = "report" => wpc[v] = "report" /\ seen'[v] = seen[v]
    BY <1>2
  <2>2. QED
    BY <1>1, <1>2, <1>4, <2>1, CountStays DEF IInv
<1>10. ProgressInv'
  BY <1>1, ProgressStays DEF IInv
<1>11. QED
  BY <1>5, <1>6, <1>7, <1>8, <1>9, <1>10 DEF IInv

(* push_back: one more behind the first n, which are all of them unless    *)
(* another worker was there.                                               *)
Pushed(b, n, i) ==
    /\ found' \in [Buckets -> Seq(Offsets)]
    /\ DOMAIN found'[b] = 1 .. n + 1
    /\ \A k \in 1 .. n : k \in DOMAIN found[b] /\ found'[b][k] = found[b][k]
    /\ found'[b][n + 1] = i
    /\ \A c \in Buckets \ {b} : found'[c] = found[c]
    /\ ~raced' => ~raced /\ DOMAIN found[b] = 1 .. n

LEMMA PushWrites ==
    ASSUME IInv, NEW w \in Workers, Push(w)
    PROVE  \E n \in Nat : Pushed(bucket[w], n, at[w])
<1> DEFINE b == bucket[w]
           F == found[b]
           n == IF seen[w] <= Len(F) THEN seen[w] ELSE Len(F)
           T == SubSeq(F, 1, n)
           G == Append(T, at[w])
<1>1. b \in Buckets /\ found \in [Buckets -> Seq(Offsets)] /\ F \in Seq(Offsets) /\ seen[w] \in Nat
  BY DEF IInv, TypeOK, ScanTypes, ResultTypes, WorkerTypes
<1>2. at[w] \in Offsets
  <2>1. wpc[w] = "push"
    BY DEF Push
  <2>2. at[w] < end[w]
    BY <2>1, WorkerFacts
  <2>3. QED
    BY <2>1, <2>2, AtIsOwn
<1>3. found' = [found EXCEPT ![b] = G] /\ raced' = (raced \/ Len(F) # seen[w])
  BY DEF Push
<1> HIDE DEF b, F
<1>4. Len(F) \in Nat /\ DOMAIN F = 1 .. Len(F) /\ \A k \in 1 .. Len(F) : F[k] \in Offsets
  BY <1>1, LenProperties, ElementOfSeq
<1>5. n \in Nat /\ n <= Len(F) /\ (Len(F) = seen[w] => n = Len(F))
  BY <1>1, <1>4
<1> HIDE DEF n
<1>0. \A k \in 1 .. n : k \in 1 .. Len(F)
  <2>1. \A m \in Nat : n <= m => \A k \in 1 .. n : k \in 1 .. m
    BY <1>5
  <2>2. Len(F) \in Nat /\ n <= Len(F)
    BY <1>4, <1>5
  <2>3. QED
    BY <2>1, <2>2, Zenon
<1>6. T \in Seq(Offsets) /\ Len(T) = n /\ \A k \in 1 .. n : T[k] = F[k]
  <2>1. \A i \in 1 .. n : F[i] \in Offsets
    BY <1>4, <1>0
  <2>2. 1 \in Int /\ n \in Int
    BY <1>5
  <2>3. /\ SubSeq(F, 1, n) \in Seq(Offsets)
        /\ Len(SubSeq(F, 1, n)) = IF 1 <= n THEN n - 1 + 1 ELSE 0
        /\ \A i \in 1 .. n - 1 + 1 : SubSeq(F, 1, n)[i] = F[1 + i - 1]
    BY <2>1, <2>2, SubSeqProperties
  <2>4. n - 1 + 1 = n /\ (\A i \in 1 .. n : 1 + i - 1 = i) /\ (~(1 <= n) => n = 0)
    BY <1>5
  <2>5. Len(T) = n
    BY <2>3, <2>4
  <2>6. \A i \in 1 .. n : T[i] = F[i]
    BY <2>3, <2>4
  <2>7. QED
    BY <2>3, <2>5, <2>6
<1> HIDE DEF T
<1>7. /\ G \in Seq(Offsets) /\ Len(G) = n + 1 /\ G[n + 1] = at[w]
      /\ \A k \in 1 .. n : G[k] = T[k]
  <2>1. /\ G \in Seq(Offsets) /\ Len(G) = Len(T) + 1 /\ G[Len(T) + 1] = at[w]
        /\ \A k \in 1 .. Len(T) : G[k] = T[k]
    BY <1>2, <1>6, AppendProperties
  <2>2. QED
    BY <1>6, <2>1
<1> HIDE DEF G
<1>8. found'[b] = G /\ (\A c \in Buckets \ {b} : found'[c] = found[c])
      /\ found' \in [Buckets -> Seq(Offsets)]
  BY <1>1, <1>3, <1>7
<1>9. DOMAIN G = 1 .. n + 1
  BY <1>7, LenProperties
<1>10. \A k \in 1 .. n : k \in DOMAIN F
  BY <1>4, <1>0
<1>11. ~raced' => ~raced /\ DOMAIN F = 1 .. n
  BY <1>3, <1>4, <1>5 DEF IInv, TypeOK, ScanTypes
<1>12. Pushed(b, n, at[w])
  BY <1>6, <1>7, <1>8, <1>9, <1>10, <1>11 DEF Pushed, F
<1>13. QED
  BY <1>5, <1>12 DEF b

LEMMA PushKeeps ==
    ASSUME IInv, NEW w \in Workers, Push(w)
    PROVE  IInv'
<1>1. UNCHANGED <<job, section, bucket, phase, next, end, seen, candidates, measured, result,
                  count, progress>>
  BY DEF Push
<1>2. /\ wpc[w] = "push" /\ phase = "scan" /\ at[w] < end[w] /\ Hit(at[w])
      /\ at[w] \in Nat /\ end[w] \in Nat /\ at[w] \in 0 .. next - 1 /\ at[w] \in Offsets
      /\ end[w] <= Size /\ Size \in Nat
  <2>1. wpc[w] = "push"
    BY DEF Push
  <2>2. OfPhase(w) /\ Hit(at[w])
    BY <2>1 DEF IInv, ChunksInv, FoundInv
  <2>3. at[w] < end[w] /\ at[w] \in Nat /\ end[w] \in Nat /\ end[w] <= Size
    BY <2>1, WorkerFacts
  <2>4. at[w] \in 0 .. next - 1 /\ at[w] \in Offsets
    BY <2>1, <2>3, AtIsOwn
  <2>5. QED
    BY <2>1, <2>2, <2>3, <2>4, SizesAre DEF OfPhase
<1>3. /\ \A v \in Workers \ {w} :
            wpc'[v] = wpc[v] /\ at'[v] = at[v] /\ end'[v] = end[v] /\ seen'[v] = seen[v]
      /\ \/ job = "diff" /\ wpc'[w] = "count" /\ at'[w] = at[w]
         \/ job = "functions" /\ wpc'[w] = "body" /\ at'[w] = at[w] + 1
  BY DEF Push, AfterPush, IInv, TypeOK, WorkerTypes, ScanTypes
<1>4. Handled' = Handled \cup {at[w]} /\ at[w] \notin Handled
  <2>1. Pending(w)' = Pending(w) \ {at[w]}
    <3>1. Pending(w) = at[w] .. end[w] - 1
      BY <1>2 DEF Pending
    <3>2. Pending(w)' = (at[w] .. end[w] - 1) \ {at[w]}
      <4>1. CASE wpc'[w] = "count" /\ at'[w] = at[w]
        BY <1>1, <4>1 DEF Pending
      <4>2. CASE wpc'[w] = "body" /\ at'[w] = at[w] + 1
        <5>1. Pending(w)' = at[w] + 1 .. end[w] - 1
          BY <1>1, <4>2 DEF Pending
        <5>2. QED
          BY <1>2, <5>1
      <4>3. QED
        BY <1>3, <4>1, <4>2
    <3>3. QED
      BY <3>1, <3>2
  <2>2. QED
    BY <1>1, <1>2, <1>3, <2>1, OneHandled
<1>5. HitsHandled' = HitsHandled \cup {at[w]} /\ at[w] \notin HitsHandled /\ Hits' = Hits
  <2>1. at[w] \in Hits
    BY <1>2 DEF Hits
  <2>2. Hits' = Hits
    BY <1>1, HitsStay
  <2>3. QED
    BY <1>1, <1>2, <1>4, <2>1, <2>2 DEF HitsHandled
<1>6. PICK n \in Nat : Pushed(bucket[w], n, at[w])
  BY PushWrites
<1>7. bucket[w] \in Buckets
  BY DEF IInv, TypeOK, ScanTypes
<1>8. TypeOK'
  <2>1. WorkerTypes'
    <3>1. at[w] \in 0 .. Size /\ at[w] + 1 \in 0 .. Size
      BY <1>2
    <3>2. at' \in [Workers -> 0 .. Size]
      BY <3>1 DEF Push, AfterPush, IInv, TypeOK, WorkerTypes
    <3>3. wpc' \in [Workers -> {"free", "body", "push", "count", "read", "report"}]
      BY DEF Push, AfterPush, IInv, TypeOK, WorkerTypes
    <3>4. QED
      BY <1>1, <3>2, <3>3 DEF IInv, TypeOK, WorkerTypes
  <2>2. ScanTypes'
    <3>1. raced' \in BOOLEAN /\ corrupt' \in BOOLEAN
      BY DEF Push, IInv, TypeOK, ScanTypes
    <3>2. QED
      BY <1>1, <3>1 DEF IInv, TypeOK, ScanTypes
  <2>3. ResultTypes' /\ ProgressTypes'
    BY <1>1, <1>6 DEF IInv, TypeOK, ResultTypes, ProgressTypes, Pushed
  <2>4. QED
    BY <2>1, <2>2, <2>3 DEF TypeOK
<1>9. ChunksInv'
  <2>1. OfPhase(w)'
    BY <1>1, <1>2, <1>3 DEF OfPhase
  <2>2. /\ at'[w] \in Nat /\ at[w] <= at'[w] /\ at'[w] <= end[w]
        /\ wpc'[w] \notin {"free", "body"} => at'[w] < end[w]
    BY <1>2, <1>3
  <2>3. QED
    BY <1>1, <1>2, <1>3, <2>1, <2>2, ChunksStep
<1>10. FoundInv'
  <2> DEFINE b == bucket[w]
  <2>1. AllFound \subseteq HitsHandled /\ FoundOnce /\ (~raced => HitsHandled \subseteq AllFound)
    BY DEF IInv, FoundInv
  <2>2. ASSUME NEW c \in Buckets, NEW k \in DOMAIN found'[c]
        PROVE  \/ c = b /\ k = n + 1 /\ found'[c][k] = at[w]
               \/ ~(c = b /\ k = n + 1) /\ k \in DOMAIN found[c] /\ found'[c][k] = found[c][k]
    <3>1. CASE c = b
      <4>1. k \in 1 .. n + 1
        BY <1>6, <2>2, <3>1 DEF Pushed
      <4>2. k = n + 1 \/ (k # n + 1 /\ k \in 1 .. n)
        BY <4>1
      <4>3. QED
        BY <1>6, <3>1, <4>2 DEF Pushed
    <3>2. CASE c # b
      BY <1>6, <2>2, <3>2 DEF Pushed
    <3>3. QED
      BY <3>1, <3>2
  <2>3. ASSUME NEW c \in Buckets, NEW k \in DOMAIN found[c] PROVE found[c][k] \in AllFound
    BY <2>3 DEF AllFound, FoundAt
  <2> HIDE DEF b
  <2>4. AllFound' \subseteq AllFound \cup {at[w]}
    <3>1. ASSUME NEW x \in AllFound' PROVE x \in AllFound \cup {at[w]}
      <4>1. PICK c \in Buckets' : x \in FoundAt(c)'
        BY <3>1 DEF AllFound
      <4>2. PICK k \in DOMAIN found'[c] : x = found'[c][k]
        BY <4>1 DEF FoundAt
      <4>3. c \in Buckets
        BY <4>1 DEF Buckets, NumThreads
      <4>4. QED
        BY <2>2, <2>3, <4>2, <4>3
    <3>2. QED
      BY <3>1
  <2>5. ~raced' => AllFound \cup {at[w]} \subseteq AllFound'
    <3> SUFFICES ASSUME ~raced', NEW x \in AllFound \cup {at[w]} PROVE x \in AllFound'
      OBVIOUS
    <3>1. \E c \in Buckets : \E k \in DOMAIN found'[c] : x = found'[c][k]
      <4>1. CASE x = at[w]
        <5>1. n + 1 \in DOMAIN found'[b] /\ found'[b][n + 1] = at[w]
          BY <1>6 DEF Pushed, b
        <5>2. QED
          BY <1>7, <4>1, <5>1 DEF b
      <4>2. CASE x \in AllFound
        <5>1. PICK c \in Buckets : x \in FoundAt(c)
          BY <4>2 DEF AllFound
        <5>2. PICK k \in DOMAIN found[c] : x = found[c][k]
          BY <5>1 DEF FoundAt
        <5>3. CASE c = b
          <6>1. k \in 1 .. n /\ k \in 1 .. n + 1
            BY <1>6, <5>2, <5>3 DEF Pushed, b
          <6>2. k \in DOMAIN found'[c] /\ found'[c][k] = found[c][k]
            BY <1>6, <5>3, <6>1 DEF Pushed, b
          <6>3. QED
            BY <5>2, <6>2
        <5>4. CASE c # b
          <6>1. found'[c] = found[c]
            BY <1>6, <5>4 DEF Pushed, b
          <6>2. QED
            BY <5>2, <6>1
        <5>5. QED
          BY <5>3, <5>4
      <4>3. QED
        BY <4>1, <4>2
    <3>2. QED
      BY <3>1 DEF AllFound, FoundAt, Buckets, NumThreads
  <2>6. FoundOnce'
    <3>1. Buckets' = Buckets
      BY DEF Buckets, NumThreads
    <3>2. \A x \in AllFound : x # at[w]
      BY <1>5, <2>1
    <3>3. ASSUME NEW c \in Buckets, NEW d \in Buckets,
                 NEW k \in DOMAIN found'[c], NEW l \in DOMAIN found'[d],
                 found'[c][k] = found'[d][l]
          PROVE  c = d /\ k = l
      <4>1. \/ c = b /\ k = n + 1 /\ found'[c][k] = at[w]
            \/ ~(c = b /\ k = n + 1) /\ k \in DOMAIN found[c] /\ found'[c][k] = found[c][k]
        BY <2>2
      <4>2. \/ d = b /\ l = n + 1 /\ found'[d][l] = at[w]
            \/ ~(d = b /\ l = n + 1) /\ l \in DOMAIN found[d] /\ found'[d][l] = found[d][l]
        BY <2>2
      <4>3. CASE k \in DOMAIN found[c] /\ found'[c][k] = found[c][k]
                 /\ l \in DOMAIN found[d] /\ found'[d][l] = found[d][l]
        <5>1. found[c][k] = found[d][l]
          BY <3>3, <4>3
        <5>2. QED
          BY <2>1, <4>3, <5>1 DEF FoundOnce
      <4>4. CASE k \in DOMAIN found[c] /\ found'[c][k] = found[c][k] /\ found'[d][l] = at[w]
        BY <2>3, <3>2, <3>3, <4>4
      <4>5. CASE l \in DOMAIN found[d] /\ found'[d][l] = found[d][l] /\ found'[c][k] = at[w]
        BY <2>3, <3>2, <3>3, <4>5
      <4>6. CASE c = b /\ k = n + 1 /\ d = b /\ l = n + 1
        BY <4>6
      <4>7. QED
        BY <4>1, <4>2, <4>3, <4>4, <4>5, <4>6
    <3>4. QED
      BY <3>1, <3>3 DEF FoundOnce
  <2>7. ASSUME NEW v \in Workers, wpc'[v] = "push" \/ (wpc'[v] = "count" /\ phase' = "scan")
        PROVE  Hit(at[v])'
    <3>1. CASE v = w
      BY <1>1, <1>2, <1>3, <2>7, <3>1 DEF Hit
    <3>2. CASE v # w
      <4>1. wpc'[v] = wpc[v] /\ at'[v] = at[v]
        BY <1>3, <3>2
      <4>2. Hit(at[v])
        BY <1>1, <2>7, <4>1 DEF IInv, FoundInv
      <4>3. QED
        BY <1>1, <4>1, <4>2 DEF Hit
    <3>3. QED
      BY <3>1, <3>2
  <2>8. AllFound' \subseteq HitsHandled'
    BY <1>5, <2>1, <2>4
  <2>9. ~raced' => HitsHandled' \subseteq AllFound'
    <3>1. ~raced' => ~raced
      BY <1>6 DEF Pushed
    <3>2. QED
      BY <1>5, <2>1, <2>5, <3>1
  <2>10. QED
    BY <2>6, <2>7, <2>8, <2>9 DEF FoundInv
<1>11. MeasuredInv'
  BY <1>1, <1>2 DEF IInv, MeasuredInv, AfterScans
<1>12. CountInv'
  <2>1. job = "diff" => Counted' \cap Hits = Counted \cap Hits
    <3> SUFFICES ASSUME job = "diff" PROVE Counted' = Counted
      OBVIOUS
    <3>1. wpc'[w] = "count" /\ at'[w] = at[w]
      BY <1>3
    <3>2. ASSUME NEW i \in Handled
          PROVE  (\A v \in Workers : wpc'[v] = "count" => at'[v] # i) <=>
                 (\A v \in Workers : wpc[v] = "count" => at[v] # i)
      <4>1. i # at[w]
        BY <1>4
      <4>2. (wpc'[w] = "count" => at'[w] # i) /\ (wpc[w] = "count" => at[w] # i)
        BY <3>1, <4>1
      <4>3. \A v \in Workers \ {w} : wpc'[v] = wpc[v] /\ at'[v] = at[v]
        BY <1>3
      <4>4. QED
        BY <4>2, <4>3
    <3>3. at[w] \notin Counted'
      BY <3>1 DEF Counted
    <3>4. QED
      BY <1>4, <3>2, <3>3 DEF Counted
  <2>2. \A v \in Workers : wpc'[v] = "report" => wpc[v] = "report" /\ seen'[v] = seen[v]
    BY <1>3
  <2>3. QED
    BY <1>1, <1>2, <2>1, <2>2, CountStays DEF IInv
<1>13. ProgressInv'
  BY <1>1, ProgressStays DEF IInv
<1>14. QED
  BY <1>8, <1>9, <1>10, <1>11, <1>12, <1>13 DEF IInv

(* Measured, counted and reported indices are of the whole.                *)
LEMMA HandledIsFinite ==
    ASSUME IInv
    PROVE  /\ Handled \subseteq 0 .. next - 1 /\ Handled \in SUBSET (0 .. Size - 1)
           /\ IsFiniteSet(Counted) /\ Cardinality(Counted) \in 0 .. Total
           /\ IsFiniteSet(Counted \cap Hits) /\ Cardinality(Counted \cap Hits) \in 0 .. Size
<1>1. Total \in Nat /\ Total <= Size /\ next \in Nat /\ next <= Total /\ Size \in Nat
  BY TotalType, SizesAre
<1>2. Handled \subseteq 0 .. next - 1 /\ Counted \subseteq Handled
  BY DEF Handled, Counted
<1>3. Handled \in SUBSET (0 .. Size - 1) /\ Counted \in SUBSET (0 .. Total - 1)
  BY <1>1, <1>2
<1>4. IsFiniteSet(Counted) /\ Cardinality(Counted) \in 0 .. Total
  BY <1>1, <1>3, AscendingLists
<1>5. IsFiniteSet(Counted \cap Hits) /\ Cardinality(Counted \cap Hits) \in 0 .. Size
  <2>1. Counted \cap Hits \in SUBSET (0 .. Size - 1)
    BY SizesAre
  <2>2. QED
    BY <1>1, <2>1, AscendingLists
<1>6. QED
  BY <1>2, <1>3, <1>4, <1>5

LEMMA CandidateFacts ==
    ASSUME IInv, phase # "scan"
    PROVE  /\ candidates = Merged /\ AllFound \subseteq Hits
           /\ Len(candidates) \in 0 .. Size /\ Total = Len(candidates)
           /\ DOMAIN candidates = 1 .. Len(candidates)
           /\ \A k \in 1 .. Len(candidates) :
                 candidates[k] \in Hits /\ Fn(candidates[k]) \in Functions
<1>1. candidates = Merged /\ AllFound \subseteq Hits
  BY DEF IInv, FoundInv, MeasuredInv, HitsHandled
<1>2. /\ Merged \in Seq(Offsets) /\ Len(Merged) \in 0 .. Size
      /\ DOMAIN Merged = 1 .. Len(Merged)
      /\ {Merged[k] : k \in 1 .. Len(Merged)} = AllFound
  BY <1>1, MergedType
<1>3. \A k \in 1 .. Len(candidates) : candidates[k] \in Hits
  BY <1>1, <1>2
<1>4. section \in Sections
  BY DEF IInv, TypeOK, ScanTypes
<1>5. QED
  BY <1>1, <1>2, <1>3, <1>4, FnType DEF Total

LEMMA MeasureKeeps ==
    ASSUME IInv, NEW w \in Workers, Measure(w)
    PROVE  IInv'
<1>1. UNCHANGED <<job, section, bucket, phase, next, at, end, seen, found, candidates, result, count,
                  progress, raced, corrupt>>
  BY DEF Measure
<1>2. /\ phase = "measure" /\ wpc[w] = "body" /\ wpc'[w] = "count" /\ at[w] < end[w]
      /\ \A v \in Workers \ {w} : wpc'[v] = wpc[v] /\ at'[v] = at[v] /\ end'[v] = end[v]
  BY DEF Measure, IInv, TypeOK, WorkerTypes
<1>3. /\ at[w] \in Nat /\ end[w] \in Nat /\ at[w] <= end[w] /\ end[w] <= Total /\ Total \in Nat
      /\ at[w] + 1 \in 1 .. Len(candidates)
  <2>1. at[w] \in Nat /\ end[w] \in Nat /\ end[w] <= next /\ next <= Total /\ Total \in Nat /\ next \in Nat
    BY <1>2, WorkerFacts
  <2>2. Total = Len(candidates)
    BY <1>2 DEF Total
  <2>3. QED
    BY <1>2, <2>1, <2>2
<1>4. Handled' = Handled \cup {at[w]} /\ at[w] \notin Handled
  <2>1. Pending(w)' = Pending(w) \ {at[w]}
    BY <1>1, <1>2 DEF Pending
  <2>2. QED
    BY <1>1, <1>2, <2>1, OneHandled
<1>5. Counted' = Counted
  <2>1. ASSUME NEW i \in Handled
        PROVE  (\A v \in Workers : wpc'[v] = "count" => at'[v] # i) <=>
               (\A v \in Workers : wpc[v] = "count" => at[v] # i)
    <3>1. i # at[w]
      BY <1>4
    <3>2. (wpc'[w] = "count" => at'[w] # i) /\ (wpc[w] = "count" => at[w] # i)
      BY <1>1, <3>1
    <3>3. QED
      BY <1>2, <3>2
  <2>2. at[w] \notin Counted'
    BY <1>1, <1>2 DEF Counted
  <2>3. QED
    BY <1>4, <2>1, <2>2 DEF Counted
<1> DEFINE f == Fn(candidates[at[w] + 1])
<1>6. f \in Functions /\ measured' = Append(measured, f) /\ measured \in Seq(Functions)
  BY <1>2, <1>3, CandidateFacts DEF Measure, IInv, TypeOK, ResultTypes
<1>7. /\ measured' \in Seq(Functions)
      /\ {measured'[k] : k \in DOMAIN measured'} = {measured[k] : k \in DOMAIN measured} \cup {f}
  <2> DEFINE n == Len(measured)
             A == Append(measured, f)
  <2> HIDE DEF f
  <2>1. n \in Nat /\ DOMAIN measured = 1 .. n
    BY <1>6, LenProperties
  <2>2. A \in Seq(Functions) /\ Len(A) = n + 1 /\ (\A k \in 1 .. n : A[k] = measured[k]) /\ A[n + 1] = f
    BY <1>6, AppendProperties
  <2> HIDE DEF A, n
  <2>3. DOMAIN A = 1 .. n + 1
    BY <2>2, LenProperties
  <2>4. \A k \in 1 .. n + 1 : k \in 1 .. n \/ k = n + 1
    BY <2>1
  <2>5. 1 .. n \subseteq 1 .. n + 1 /\ n + 1 \in 1 .. n + 1
    BY <2>1
  <2>6. {A[k] : k \in 1 .. n + 1} = {measured[k] : k \in 1 .. n} \cup {f}
    BY <2>2, <2>4, <2>5
  <2>7. measured' = A
    BY <1>6 DEF A
  <2>8. QED
    BY <2>1, <2>2, <2>3, <2>6, <2>7
<1> HIDE DEF f
<1>8. TypeOK'
  <2>1. WorkerTypes'
    BY <1>1 DEF Measure, IInv, TypeOK, WorkerTypes
  <2>2. ResultTypes'
    BY <1>1, <1>7 DEF IInv, TypeOK, ResultTypes
  <2>3. QED
    BY <1>1, <2>1, <2>2 DEF IInv, TypeOK, ScanTypes, ProgressTypes
<1>9. ChunksInv'
  <2>1. OfPhase(w)'
    BY <1>1, <1>2 DEF OfPhase
  <2>2. at'[w] \in Nat /\ at[w] <= at'[w] /\ at'[w] <= end[w] /\ at'[w] < end[w]
    BY <1>1, <1>2, <1>3
  <2>3. QED
    BY <1>1, <1>2, <2>1, <2>2, ChunksStep
<1>10. FoundInv'
  <2>1. HitsHandled' = HitsHandled
    BY <1>1, <1>2, HitsStay DEF HitsHandled
  <2>2. ASSUME NEW v \in Workers, wpc'[v] = "push" \/ (wpc'[v] = "count" /\ phase' = "scan")
        PROVE  Hit(at[v])'
    <3>1. wpc'[v] = wpc[v] /\ wpc'[v] = "push" /\ at'[v] = at[v]
      BY <1>1, <1>2, <2>2
    <3>2. Hit(at[v])
      BY <3>1 DEF IInv, FoundInv
    <3>3. QED
      BY <1>1, <3>1, <3>2 DEF Hit
  <2>3. QED
    BY <1>1, <2>1, <2>2, FoundStays DEF IInv
<1>11. MeasuredInv'
  <2>1. Merged' = Merged /\ (\A i : Fn(i)' = Fn(i))
    BY <1>1, HitsStay DEF Merged, AllFound, FoundAt
  <2>2. {Fn(candidates[i + 1]) : i \in Handled}' = {Fn(candidates[i + 1]) : i \in Handled} \cup {f}
    BY <1>1, <1>4, <2>1 DEF f
  <2>3. {measured[k] : k \in DOMAIN measured} = {Fn(candidates[i + 1]) : i \in Handled}
    BY <1>2 DEF IInv, MeasuredInv
  <2>4. {measured[k] : k \in DOMAIN measured}' = {Fn(candidates[i + 1]) : i \in Handled}'
    BY <1>7, <2>2, <2>3
  <2>5. candidates' = Merged'
    BY <1>1, <1>2, <2>1 DEF IInv, MeasuredInv
  <2>6. QED
    BY <1>1, <1>2, <2>4, <2>5 DEF MeasuredInv, AfterScans
<1>12. CountInv'
  <2>1. \A v \in Workers : wpc'[v] = "report" => wpc[v] = "report" /\ seen'[v] = seen[v]
    BY <1>1, <1>2
  <2>2. QED
    BY <1>1, <1>2, <1>5, <2>1, CountStays DEF IInv
<1>13. ProgressInv'
  BY <1>1, ProgressStays DEF IInv
<1>14. QED
  BY <1>8, <1>9, <1>10, <1>11, <1>12, <1>13 DEF IInv

LEMMA CountKeeps ==
    ASSUME IInv, NEW w \in Workers, Count(w)
    PROVE  IInv'
<1>1. /\ UNCHANGED <<job, section, bucket, phase, next, end, found, candidates, measured, result,
                     progress, raced, corrupt>>
      /\ count' = count + 1
  BY DEF Count
<1>2. /\ wpc[w] = "count"
      /\ \A v \in Workers \ {w} :
            wpc'[v] = wpc[v] /\ at'[v] = at[v] /\ end'[v] = end[v] /\ seen'[v] = seen[v]
      /\ \/ wpc'[w] = "report" /\ phase = "scan" /\ seen'[w] = at[w] /\ at' = at
         \/ wpc'[w] = "read" /\ phase # "scan" /\ at' = at
         \/ wpc'[w] = "body" /\ at'[w] = at[w] + 1
      /\ at' = at \/ at' = [at EXCEPT ![w] = at[w] + 1]
      /\ seen' = seen \/ seen' = [seen EXCEPT ![w] = at[w]]
      /\ wpc' \in [Workers -> {"free", "body", "push", "count", "read", "report"}]
  <2>1. CASE count' % ReportEvery = 0
    BY <2>1 DEF Count, IInv, TypeOK, WorkerTypes
  <2>2. CASE count' % ReportEvery # 0
    BY <2>2 DEF Count, IInv, TypeOK, WorkerTypes
  <2>3. QED
    BY <2>1, <2>2
<1>3. /\ at[w] \in Nat /\ end[w] \in Nat /\ at[w] < end[w] /\ end[w] <= Size /\ Size \in Nat
      /\ at[w] \in 0 .. Size /\ at[w] + 1 \in 0 .. Size
  <2>1. at[w] \in Nat /\ end[w] \in Nat /\ at[w] < end[w] /\ end[w] <= Size
    BY <1>2, WorkerFacts
  <2>2. QED
    BY <2>1, SizesAre
<1>4. /\ phase \in {"scan", "measure"} /\ (phase = "scan" => job = "diff")
      /\ phase = "scan" => at[w] \in Hits
  <2>1. OfPhase(w)
    BY <1>2 DEF IInv, ChunksInv
  <2>2. phase = "scan" => Hit(at[w])
    BY <1>2 DEF IInv, FoundInv
  <2>3. at[w] \in Offsets
    BY <1>3, SizesAre
  <2>4. QED
    BY <1>2, <2>1, <2>2, <2>3 DEF OfPhase, Hits
<1>5. Handled' = Handled
  <2>1. Pending(w)' = Pending(w)
    <3>1. Pending(w) = (at[w] .. end[w] - 1) \ {at[w]}
      BY <1>2 DEF Pending
    <3>2. CASE at'[w] = at[w] /\ wpc'[w] \in {"report", "read"}
      BY <1>1, <3>1, <3>2 DEF Pending
    <3>3. CASE at'[w] = at[w] + 1 /\ wpc'[w] = "body"
      <4>1. Pending(w)' = at[w] + 1 .. end[w] - 1
        BY <1>1, <3>3 DEF Pending
      <4>2. QED
        BY <1>3, <3>1, <4>1
    <3>4. QED
      BY <1>2, <3>2, <3>3
  <2>2. QED
    BY <1>1, <1>2, <2>1, StepHandles
<1>6. at[w] \in Handled /\ at[w] \notin Counted /\ Counted' = Counted \cup {at[w]}
  <2>1. /\ at[w] \in 0 .. next - 1
        /\ \A v \in Workers \ {w} :
              at[w] \notin Pending(v) /\ (wpc[v] = "count" => at[v] # at[w])
    BY <1>2, <1>3, AtIsOwn
  <2>2. at[w] \notin Pending(w)
    BY <1>2 DEF Pending
  <2>3. at[w] \in Handled
    BY <2>1, <2>2 DEF Handled
  <2>4. at[w] \notin Counted
    BY <1>2 DEF Counted
  <2>5. wpc'[w] # "count"
    BY <1>2
  <2>6. at[w] \in Counted'
    BY <1>2, <1>5, <2>1, <2>3, <2>5 DEF Counted
  <2>7. ASSUME NEW i \in Handled, i # at[w] PROVE i \in Counted' <=> i \in Counted
    BY <1>2, <1>5, <2>5, <2>7 DEF Counted
  <2>8. Counted \subseteq Handled /\ Counted' \subseteq Handled
    BY <1>5 DEF Counted
  <2>9. QED
    BY <2>3, <2>4, <2>6, <2>7, <2>8
<1>7. /\ phase = "scan" => count' = Cardinality(Counted' \cap Hits)
      /\ phase = "measure" => count' = Cardinality(Counted')
      /\ count' \in 0 .. Size /\ count \in Nat
  <2>1. count \in Nat
    BY DEF IInv, TypeOK, ProgressTypes
  <2>2. ASSUME phase = "scan" PROVE count' = Cardinality(Counted' \cap Hits)
    <3>1. count = Cardinality(Counted \cap Hits)
      BY <1>4, <2>2 DEF IInv, CountInv
    <3>2. Counted' \cap Hits = (Counted \cap Hits) \cup {at[w]} /\ at[w] \notin Counted \cap Hits
      BY <1>4, <1>6, <2>2
    <3>3. Cardinality((Counted \cap Hits) \cup {at[w]}) = Cardinality(Counted \cap Hits) + 1
      BY <3>2, HandledIsFinite, FS_AddElement
    <3>4. QED
      BY <1>1, <3>1, <3>2, <3>3
  <2>3. ASSUME phase = "measure" PROVE count' = Cardinality(Counted')
    <3>1. count = Cardinality(Counted)
      BY <2>3 DEF IInv, CountInv
    <3>2. Cardinality(Counted \cup {at[w]}) = Cardinality(Counted) + 1
      BY <1>6, HandledIsFinite, FS_AddElement
    <3>3. QED
      BY <1>1, <1>6, <3>1, <3>2
  <2>4. Cardinality(Counted') \in 0 .. Size /\ Cardinality(Counted' \cap Hits) \in 0 .. Size
    <3>1. Counted' \in SUBSET (0 .. Size - 1)
      BY <1>5, HandledIsFinite DEF Counted
    <3>2. Counted' \cap Hits \in SUBSET (0 .. Size - 1)
      BY <3>1
    <3>3. QED
      BY <1>3, <3>1, <3>2, AscendingLists
  <2>5. QED
    BY <1>4, <2>1, <2>2, <2>3, <2>4
<1>8. TypeOK'
  <2>1. WorkerTypes'
    <3>1. at' \in [Workers -> 0 .. Size] /\ seen' \in [Workers -> 0 .. Size]
      BY <1>2, <1>3 DEF IInv, TypeOK, WorkerTypes
    <3>2. QED
      BY <1>1, <1>2, <3>1 DEF IInv, TypeOK, WorkerTypes
  <2>2. QED
    BY <1>1, <1>7, <2>1 DEF IInv, TypeOK, ScanTypes, ResultTypes, ProgressTypes
<1>9. ChunksInv'
  <2>1. OfPhase(w)'
    BY <1>1, <1>2, <1>4 DEF OfPhase
  <2>2. /\ at'[w] \in Nat /\ at[w] <= at'[w] /\ at'[w] <= end[w]
        /\ wpc'[w] \notin {"free", "body"} => at'[w] < end[w]
    BY <1>2, <1>3
  <2>3. QED
    BY <1>1, <1>2, <2>1, <2>2, ChunksStep
<1>10. FoundInv'
  <2>1. HitsHandled' = HitsHandled
    BY <1>1, <1>5, HitsStay DEF HitsHandled
  <2>2. ASSUME NEW v \in Workers, wpc'[v] = "push" \/ (wpc'[v] = "count" /\ phase' = "scan")
        PROVE  Hit(at[v])'
    <3>1. wpc'[v] = wpc[v] /\ at'[v] = at[v]
      BY <1>2, <2>2
    <3>2. Hit(at[v])
      BY <1>1, <2>2, <3>1 DEF IInv, FoundInv
    <3>3. QED
      BY <1>1, <3>1, <3>2 DEF Hit
  <2>3. QED
    BY <1>1, <2>1, <2>2, FoundStays DEF IInv
<1>11. MeasuredInv'
  BY <1>1, <1>5, MeasuredStays DEF IInv
<1>12. CountInv'
  <2>1. Hits' = Hits
    BY <1>1, HitsStay
  <2>2. ASSUME NEW v \in Workers, wpc'[v] = "report"
        PROVE  seen'[v] <= IF phase' = "scan" THEN Size ELSE count'
    <3>1. CASE v = w
      BY <1>1, <1>2, <1>3, <2>2, <3>1
    <3>2. CASE v # w
      <4>1. wpc[v] = "report" /\ seen'[v] = seen[v] /\ seen[v] \in Nat
        BY <1>2, <2>2, <3>2 DEF IInv, TypeOK, WorkerTypes
      <4>2. seen[v] <= IF phase = "scan" THEN Size ELSE count
        BY <4>1 DEF IInv, CountInv
      <4>3. QED
        BY <1>1, <1>7, <4>1, <4>2
    <3>3. QED
      BY <3>1, <3>2
  <2>3. phase' = "scan" => count' = IF job' = "diff" THEN Cardinality(Counted' \cap Hits') ELSE 0
    BY <1>1, <1>4, <1>7, <2>1
  <2>4. phase' = "measure" => count' = Cardinality(Counted')
    BY <1>1, <1>7
  <2>5. QED
    BY <2>2, <2>3, <2>4 DEF CountInv
<1>13. ProgressInv'
  BY <1>1, ProgressStays DEF IInv
<1>14. QED
  BY <1>8, <1>9, <1>10, <1>11, <1>12, <1>13 DEF IInv

LEMMA ReadCountKeeps ==
    ASSUME IInv, NEW w \in Workers, ReadCount(w)
    PROVE  IInv'
<1>1. UNCHANGED <<job, section, bucket, phase, next, at, end, found, candidates, measured, result,
                  count, progress, raced, corrupt>>
  BY DEF ReadCount
<1>2. /\ wpc[w] = "read" /\ wpc'[w] = "report" /\ seen'[w] = count
      /\ \A v \in Workers \ {w} :
            wpc'[v] = wpc[v] /\ at'[v] = at[v] /\ end'[v] = end[v] /\ seen'[v] = seen[v]
  BY DEF ReadCount, IInv, TypeOK, WorkerTypes
<1>3. at[w] \in Nat /\ end[w] \in Nat /\ at[w] < end[w] /\ phase = "measure"
  <2>1. OfPhase(w)
    BY <1>2 DEF IInv, ChunksInv
  <2>2. at[w] \in Nat /\ end[w] \in Nat /\ at[w] < end[w]
    BY <1>2, WorkerFacts
  <2>3. QED
    BY <1>2, <2>1, <2>2 DEF OfPhase
<1>4. Handled' = Handled /\ Counted' = Counted
  <2>1. Pending(w)' = Pending(w)
    BY <1>1, <1>2 DEF Pending
  <2>2. Handled' = Handled
    BY <1>1, <1>2, <2>1, StepHandles
  <2>3. \A v \in Workers : wpc'[v] = "count" <=> wpc[v] = "count"
    BY <1>2
  <2>4. QED
    BY <1>1, <2>2, <2>3 DEF Counted
<1>5. TypeOK'
  <2>1. count \in 0 .. Size
    BY DEF IInv, TypeOK, ProgressTypes
  <2>2. WorkerTypes'
    BY <1>1, <2>1 DEF ReadCount, IInv, TypeOK, WorkerTypes
  <2>3. QED
    BY <1>1, <2>2 DEF IInv, TypeOK, ScanTypes, ResultTypes, ProgressTypes
<1>6. ChunksInv'
  <2>1. OfPhase(w)'
    BY <1>1, <1>2, <1>3 DEF OfPhase
  <2>2. at'[w] \in Nat /\ at[w] <= at'[w] /\ at'[w] <= end[w] /\ at'[w] < end[w]
    BY <1>1, <1>3
  <2>3. QED
    BY <1>1, <1>2, <2>1, <2>2, ChunksStep
<1>7. FoundInv'
  <2>1. HitsHandled' = HitsHandled
    BY <1>1, <1>4, HitsStay DEF HitsHandled
  <2>2. ASSUME NEW v \in Workers, wpc'[v] = "push" \/ (wpc'[v] = "count" /\ phase' = "scan")
        PROVE  Hit(at[v])'
    <3>1. wpc'[v] = wpc[v] /\ at'[v] = at[v]
      BY <1>2, <2>2
    <3>2. Hit(at[v])
      BY <1>1, <2>2, <3>1 DEF IInv, FoundInv
    <3>3. QED
      BY <1>1, <3>1, <3>2 DEF Hit
  <2>3. QED
    BY <1>1, <2>1, <2>2, FoundStays DEF IInv
<1>8. MeasuredInv'
  BY <1>1, <1>4, MeasuredStays DEF IInv
<1>9. CountInv'
  <2>1. count \in Nat
    BY DEF IInv, TypeOK, ProgressTypes
  <2>2. ASSUME NEW v \in Workers, wpc'[v] = "report" PROVE seen'[v] <= count'
    <3>1. CASE v = w
      BY <1>1, <1>2, <2>1, <3>1
    <3>2. CASE v # w
      BY <1>1, <1>2, <1>3, <2>2, <3>2 DEF IInv, CountInv
    <3>3. QED
      BY <3>1, <3>2
  <2>3. count' = Cardinality(Counted')
    BY <1>1, <1>3, <1>4 DEF IInv, CountInv
  <2>4. QED
    BY <1>1, <1>3, <2>2, <2>3 DEF CountInv
<1>10. ProgressInv'
  BY <1>1, ProgressStays DEF IInv
<1>11. QED
  BY <1>5, <1>6, <1>7, <1>8, <1>9, <1>10 DEF IInv

LEMMA ReportKeeps ==
    ASSUME IInv, NEW w \in Workers, Report(w)
    PROVE  IInv'
<1>1. UNCHANGED <<job, section, bucket, phase, next, end, seen, found, candidates, measured, result,
                  count, raced, corrupt>>
  BY DEF Report
<1>2. /\ wpc[w] = "report" /\ wpc'[w] = "body" /\ at'[w] = at[w] + 1
      /\ \A v \in Workers \ {w} : wpc'[v] = wpc[v] /\ at'[v] = at[v] /\ end'[v] = end[v]
  BY DEF Report, IInv, TypeOK, WorkerTypes
<1>3. /\ at[w] \in Nat /\ end[w] \in Nat /\ at[w] < end[w] /\ end[w] <= Size /\ Size \in Nat
      /\ at[w] + 1 \in 0 .. Size
  <2>1. at[w] \in Nat /\ end[w] \in Nat /\ at[w] < end[w] /\ end[w] <= Size
    BY <1>2, WorkerFacts
  <2>2. QED
    BY <2>1, SizesAre
<1>4. phase \in {"scan", "measure"}
  <2>1. OfPhase(w)
    BY <1>2 DEF IInv, ChunksInv
  <2>2. QED
    BY <2>1 DEF OfPhase
<1>5. Handled' = Handled /\ Counted' = Counted
  <2>1. Pending(w)' = Pending(w)
    <3>1. Pending(w) = (at[w] .. end[w] - 1) \ {at[w]}
      BY <1>2 DEF Pending
    <3>2. Pending(w)' = at[w] + 1 .. end[w] - 1
      BY <1>1, <1>2 DEF Pending
    <3>3. QED
      BY <1>3, <3>1, <3>2
  <2>2. Handled' = Handled
    BY <1>1, <1>2, <2>1, StepHandles
  <2>3. \A v \in Workers : wpc'[v] = "count" <=> wpc[v] = "count"
    BY <1>2
  <2>4. \A v \in Workers : wpc[v] = "count" => at'[v] = at[v]
    BY <1>2
  <2>5. QED
    BY <2>2, <2>3, <2>4 DEF Counted
<1>6. /\ seen[w] \in 0 .. Size /\ seen[w] <= progress.total
      /\ progress' = [progress EXCEPT !.current = seen[w]]
      /\ progress \in [current : 0 .. Size, total : 0 .. Size, completed : BOOLEAN,
                       cancelled : BOOLEAN]
  <2>1. seen[w] \in 0 .. Size
    BY DEF IInv, TypeOK, WorkerTypes
  <2>2. CASE phase = "scan"
    <3>1. progress.total = Size
      BY <2>2 DEF IInv, ProgressInv
    <3>2. QED
      BY <1>3, <2>1, <3>1 DEF Report, Updated, IInv, TypeOK, ProgressTypes
  <2>3. CASE phase = "measure"
    <3>1. progress.total = Len(candidates) /\ Total = Len(candidates)
      BY <2>3 DEF IInv, ProgressInv, Total
    <3>2. seen[w] <= count /\ count = Cardinality(Counted)
      BY <1>2, <2>3 DEF IInv, CountInv
    <3>3. count <= Total /\ count \in Nat /\ Total \in Nat
      BY <3>2, HandledIsFinite, TotalType
    <3>4. seen[w] <= progress.total
      BY <2>1, <3>1, <3>2, <3>3
    <3>5. QED
      BY <2>1, <3>4 DEF Report, Updated, IInv, TypeOK, ProgressTypes
  <2>4. QED
    BY <1>4, <2>2, <2>3
<1>7. TypeOK'
  <2>1. WorkerTypes'
    BY <1>1, <1>3 DEF Report, IInv, TypeOK, WorkerTypes
  <2>2. ProgressTypes'
    BY <1>1, <1>6 DEF IInv, TypeOK, ProgressTypes
  <2>3. QED
    BY <1>1, <2>1, <2>2 DEF IInv, TypeOK, ScanTypes, ResultTypes
<1>8. ChunksInv'
  <2>1. OfPhase(w)'
    BY <1>1, <1>2, <1>4 DEF OfPhase
  <2>2. at'[w] \in Nat /\ at[w] <= at'[w] /\ at'[w] <= end[w]
    BY <1>2, <1>3
  <2>3. QED
    BY <1>1, <1>2, <2>1, <2>2, ChunksStep
<1>9. FoundInv'
  <2>1. HitsHandled' = HitsHandled
    BY <1>1, <1>5, HitsStay DEF HitsHandled
  <2>2. ASSUME NEW v \in Workers, wpc'[v] = "push" \/ (wpc'[v] = "count" /\ phase' = "scan")
        PROVE  Hit(at[v])'
    <3>1. wpc'[v] = wpc[v] /\ at'[v] = at[v]
      BY <1>2, <2>2
    <3>2. Hit(at[v])
      BY <1>1, <2>2, <3>1 DEF IInv, FoundInv
    <3>3. QED
      BY <1>1, <3>1, <3>2 DEF Hit
  <2>3. QED
    BY <1>1, <2>1, <2>2, FoundStays DEF IInv
<1>10. MeasuredInv'
  BY <1>1, <1>5, MeasuredStays DEF IInv
<1>11. CountInv'
  <2>1. \A v \in Workers : wpc'[v] = "report" => wpc[v] = "report" /\ seen'[v] = seen[v]
    BY <1>1, <1>2
  <2>2. QED
    BY <1>1, <1>5, <2>1, CountStays DEF IInv
<1>12. ProgressInv'
  <2>1. /\ progress'.current = seen[w] /\ progress'.total = progress.total
        /\ progress'.completed = progress.completed
    BY <1>6
  <2>2. QED
    BY <1>1, <1>4, <1>6, <2>1 DEF IInv, ProgressInv
<1>13. QED
  BY <1>7, <1>8, <1>9, <1>10, <1>11, <1>12 DEF IInv

(* When all workers are free and all chunks are taken, all is handled.     *)
LEMMA ReturnedHandled ==
    ASSUME IInv, Returned
    PROVE  /\ Handled = 0 .. Total - 1
           /\ \A w \in Workers : wpc[w] = "free"
           /\ phase = "scan" => HitsHandled = Hits
<1>1. next = Total /\ \A w \in Workers : wpc[w] = "free"
  BY DEF Returned
<1>2. \A w \in Workers : Pending(w) = {}
  BY <1>1 DEF Pending
<1>3. Handled = 0 .. Total - 1
  BY <1>1, <1>2 DEF Handled
<1>4. phase = "scan" => HitsHandled = Hits
  BY <1>3, SizesAre DEF HitsHandled, Total
<1>5. QED
  BY <1>1, <1>3, <1>4

LEMMA MergeKeeps ==
    ASSUME IInv, Merge
    PROVE  IInv'
<1>1. /\ UNCHANGED <<job, section, bucket, wpc, at, end, seen, found, measured, raced, corrupt>>
      /\ phase = "scan" /\ Returned /\ candidates' = Merged /\ next' = 0 /\ count' = 0
  BY DEF Merge
<1>2. HitsHandled = Hits /\ \A w \in Workers : wpc'[w] = "free"
  BY <1>1, ReturnedHandled
<1>3. /\ Merged \in Seq(Offsets) /\ Len(Merged) \in 0 .. Size
  <2>1. AllFound \subseteq Hits
    BY <1>2 DEF IInv, FoundInv
  <2>2. QED
    BY <2>1, MergedType
<1>4. Merged' = Merged /\ Hits' = Hits /\ HitsHandled' = Hits
  <2>1. Merged' = Merged /\ Hits' = Hits
    BY <1>1, HitsStay DEF Merged, AllFound, FoundAt
  <2>2. phase' # "scan"
    BY DEF Merge
  <2>3. QED
    BY <2>1, <2>2 DEF HitsHandled
<1>5. progress.total = Size /\ progress.current <= progress.total
  BY <1>1 DEF IInv, ProgressInv
<1>6. progress \in [current : 0 .. Size, total : 0 .. Size, completed : BOOLEAN, cancelled : BOOLEAN]
  BY DEF IInv, TypeOK, ProgressTypes
<1>7. job \in {"functions", "diff"} /\ {measured[k] : k \in DOMAIN measured} = {}
  BY <1>1 DEF IInv, TypeOK, ScanTypes, MeasuredInv, AfterScans
<1>8. Total' = Len(Merged)
  BY <1>1 DEF Total, Merge
<1>9. FoundInv'
  <2>1. \A v \in Workers : ~(wpc'[v] = "push" \/ (wpc'[v] = "count" /\ phase' = "scan"))
    BY <1>2
  <2>2. QED
    BY <1>1, <1>2, <1>4, <2>1, FoundStays DEF IInv
<1>10. Handled' = {} /\ Counted' = {}
  BY <1>1 DEF Handled, Counted
<1>11. CASE job = "diff"
  <2>1. phase' = "done" /\ result' = Merged /\ progress' = [progress EXCEPT !.completed = TRUE, !.current = progress.total]
    BY <1>11 DEF Merge, Completed
  <2>2. TypeOK'
    <3>1. ProgressTypes'
      <4>1. progress.total \in 0 .. Size /\ 0 \in 0 .. Size
        BY <1>6, SizesAre
      <4>2. progress' \in [current : 0 .. Size, total : 0 .. Size, completed : BOOLEAN, cancelled : BOOLEAN]
        BY <1>6, <2>1, <4>1
      <4>3. QED
        BY <1>1, <4>1, <4>2 DEF ProgressTypes
    <3>2. ResultTypes'
      BY <1>1, <1>3, <1>11, <2>1 DEF IInv, TypeOK, ResultTypes
    <3>3. WorkerTypes' /\ ScanTypes'
      BY <1>1, <2>1, SizesAre DEF IInv, TypeOK, WorkerTypes, ScanTypes
    <3>4. QED
      BY <3>1, <3>2, <3>3 DEF TypeOK
  <2>3. ChunksInv'
    BY <1>1, <1>2, <1>3, <1>8, <2>1 DEF ChunksInv
  <2>4. MeasuredInv'
    BY <1>1, <1>4, <1>7, <1>11, <2>1 DEF MeasuredInv, AfterScans
  <2>5. CountInv'
    BY <1>2, <2>1 DEF CountInv
  <2>6. ProgressInv'
    BY <1>1, <1>5, <1>6, <1>11, <2>1, SizesAre DEF ProgressInv
  <2>7. QED
    BY <1>9, <2>2, <2>3, <2>4, <2>5, <2>6 DEF IInv
<1>12. CASE job = "functions"
  <2>1. phase' = "measure" /\ progress' = Started(Len(Merged)) /\ result' = result
    BY <1>12 DEF Merge
  <2>2. TypeOK'
    <3>1. ProgressTypes'
      <4> DEFINE total == Len(Merged)
      <4>1. total \in 0 .. Size /\ 0 \in 0 .. Size
        BY <1>3, SizesAre
      <4>2. progress' = [current |-> 0, total |-> total, completed |-> FALSE, cancelled |-> FALSE]
        BY <2>1 DEF Started
      <4> HIDE DEF total
      <4>3. QED
        BY <1>1, <4>1, <4>2 DEF ProgressTypes
    <3>2. ResultTypes'
      BY <1>1, <1>3, <2>1 DEF IInv, TypeOK, ResultTypes
    <3>3. WorkerTypes' /\ ScanTypes'
      BY <1>1, <2>1, SizesAre DEF IInv, TypeOK, WorkerTypes, ScanTypes
    <3>4. QED
      BY <3>1, <3>2, <3>3 DEF TypeOK
  <2>3. ChunksInv'
    BY <1>1, <1>2, <1>3, <1>8, <1>12, <2>1 DEF ChunksInv
  <2>4. MeasuredInv'
    BY <1>1, <1>4, <1>7, <1>10, <1>12, <2>1 DEF MeasuredInv, AfterScans
  <2>5. CountInv'
    BY <1>1, <1>2, <1>10, <2>1, FS_EmptySet DEF CountInv
  <2>6. ProgressInv'
    BY <1>1, <1>3, <2>1 DEF ProgressInv, Started
  <2>7. QED
    BY <1>9, <2>2, <2>3, <2>4, <2>5, <2>6 DEF IInv
<1>13. QED
  BY <1>7, <1>11, <1>12

LEMMA ByStartType ==
    ASSUME measured \in Seq(Functions)
    PROVE  ByStart(measured) \in Seq(Functions)
<1> DEFINE M == {measured[k] : k \in DOMAIN measured}
           T == {measured[k].start : k \in DOMAIN measured}
           A == Ascending(T)
           n == Cardinality(T)
<1>1. M \subseteq Functions
  <2>1. \A k \in 1 .. Len(measured) : measured[k] \in Functions
    BY ElementOfSeq
  <2>2. QED
    BY <2>1, LenProperties
<1>2. \A k \in DOMAIN measured : measured[k] \in M /\ measured[k].start \in Offsets
  BY <1>1 DEF Functions
<1>3. T \in SUBSET (0 .. Size - 1) /\ Size \in Nat
  BY <1>2, SizesAre
<1>4. ByStart(measured) = [m \in DOMAIN A |-> CHOOSE f \in M : f.start = A[m]]
  BY DEF ByStart
<1>5. A \in Seq(T) /\ n \in Nat /\ DOMAIN A = 1 .. n /\ Len(A) = n
  <2> HIDE DEF T
  <2>1. /\ Cardinality(T) \in 0 .. Size /\ Ascending(T) \in Seq(T)
        /\ Len(Ascending(T)) = Cardinality(T) /\ DOMAIN Ascending(T) = 1 .. Cardinality(T)
    BY <1>3, AscendingLists
  <2>2. QED
    BY <1>3, <2>1
<1> HIDE DEF A, n
<1>6. ASSUME NEW m \in 1 .. n PROVE (CHOOSE f \in M : f.start = A[m]) \in Functions
  <2>1. A[m] \in T
    <3> HIDE DEF T
    <3>1. QED
      BY <1>5, ElementOfSeq
  <2>2. \E f \in M : f.start = A[m]
    <3>1. PICK k \in DOMAIN measured : A[m] = measured[k].start
      BY <2>1
    <3>2. measured[k] \in M
      BY <1>2
    <3> HIDE DEF M
    <3>3. QED
      BY <3>1, <3>2
  <2> HIDE DEF M
  <2>3. QED
    BY <1>1, <2>2
<1>7. [m \in 1 .. n |-> CHOOSE f \in M : f.start = A[m]] \in Seq(Functions)
  <2> HIDE DEF M
  <2>1. [m \in 1 .. n |-> CHOOSE f \in M : f.start = A[m]] \in [1 .. n -> Functions]
    BY <1>6
  <2>2. \A g \in [1 .. n -> Functions] : g \in Seq(Functions)
    BY <1>5
  <2>3. QED
    BY <2>1, <2>2, Zenon
<1>8. QED
  BY <1>4, <1>5, <1>7

LEMMA ResolveKeeps ==
    ASSUME IInv, Resolve
    PROVE  IInv'
<1>1. /\ UNCHANGED <<job, section, bucket, scanVars, found, candidates, measured, count, raced,
                     corrupt>>
      /\ phase = "measure" /\ phase' = "done" /\ Returned
      /\ result' = Resolved(ByStart(measured))
      /\ progress' = [progress EXCEPT !.completed = TRUE, !.current = progress.total]
  BY DEF Resolve, Completed
<1>2. UNCHANGED <<next, wpc, at, end, seen>>
  BY <1>1 DEF scanVars
<1>3. /\ Handled = 0 .. Len(candidates) - 1 /\ \A w \in Workers : wpc[w] = "free"
      /\ Len(candidates) \in Nat /\ DOMAIN candidates = 1 .. Len(candidates)
      /\ job = "functions"
  BY <1>1, ReturnedHandled, CandidateFacts DEF IInv, ChunksInv
<1>4. /\ Merged' = Merged /\ Hits' = Hits /\ HitsHandled' = HitsHandled
      /\ (\A i : Fn(i)' = Fn(i)) /\ Total' = Total
  <2>1. Merged' = Merged /\ Hits' = Hits /\ (\A i : Fn(i)' = Fn(i))
    BY <1>1, HitsStay DEF Merged, AllFound, FoundAt
  <2>2. HitsHandled' = HitsHandled
    BY <1>1, <2>1 DEF HitsHandled
  <2>3. QED
    BY <1>1, <2>1, <2>2 DEF Total
<1>5. progress \in [current : 0 .. Size, total : 0 .. Size, completed : BOOLEAN, cancelled : BOOLEAN]
  BY DEF IInv, TypeOK, ProgressTypes
<1>6. TypeOK'
  <2>1. ResultTypes'
    <3>1. ByStart(measured) \in Seq(Functions)
      BY ByStartType DEF IInv, TypeOK, ResultTypes
    <3>2. PICK f : ResolvedBy(f, ByStart(measured))
      BY <3>1, ResolvedRounds
    <3>3. Resolved(ByStart(measured)) \in Seq(Functions)
      <4>1. Len(ByStart(measured)) \in Nat
        BY <3>1, LenProperties
      <4>2. QED
        BY <3>2, <4>1 DEF ResolvedBy
    <3>4. QED
      BY <1>1, <1>3, <3>3 DEF IInv, TypeOK, ResultTypes
  <2>2. ProgressTypes'
    BY <1>1, <1>5 DEF IInv, TypeOK, ProgressTypes
  <2>3. WorkerTypes' /\ ScanTypes'
    BY <1>1, <1>2 DEF IInv, TypeOK, WorkerTypes, ScanTypes
  <2>4. QED
    BY <2>1, <2>2, <2>3 DEF TypeOK
<1>7. ChunksInv'
  BY <1>1, <1>2, <1>3, <1>4 DEF IInv, ChunksInv
<1>8. FoundInv'
  <2>1. \A v \in Workers : ~(wpc'[v] = "push" \/ (wpc'[v] = "count" /\ phase' = "scan"))
    BY <1>2, <1>3
  <2>2. QED
    BY <1>1, <1>4, <2>1, FoundStays DEF IInv
<1>9. MeasuredInv'
  <2> DEFINE M == {measured[k] : k \in DOMAIN measured}
             L == Len(candidates)
             C(i) == Fn(candidates[i])
  <2>1. M = {C(i + 1) : i \in 0 .. L - 1}
    BY <1>1, <1>3 DEF IInv, MeasuredInv
  <2>2. {C(i + 1) : i \in 0 .. L - 1} = {C(k) : k \in 1 .. L}
    <3> HIDE DEF C, L
    <3>1. L \in Nat
      BY <1>3 DEF L
    <3>2. \A i \in 0 .. L - 1 : i + 1 \in 1 .. L
      BY <3>1
    <3>3. \A k \in 1 .. L : k - 1 \in 0 .. L - 1 /\ k - 1 + 1 = k
      BY <3>1
    <3>4. QED
      BY <3>2, <3>3
  <2>3. M = {C(k) : k \in DOMAIN candidates}
    <3> HIDE DEF C, M
    <3>1. QED
      BY <1>3, <2>1, <2>2
  <2>4. M' = M /\ {Fn(candidates[k]) : k \in DOMAIN candidates}' = {C(k) : k \in DOMAIN candidates}
    BY <1>1, <1>4
  <2>5. Resolved(ByStart(measured))' = Resolved(ByStart(measured))
    BY <1>1 DEF Resolved, ByStart
  <2>6. candidates' = Merged'
    BY <1>1, <1>4 DEF IInv, MeasuredInv
  <2>7. M' = {Fn(candidates[k]) : k \in DOMAIN candidates}'
    <3> HIDE DEF M, C
    <3>1. QED
      BY <2>3, <2>4, Zenon
  <2>8. result' = Resolved(ByStart(measured))'
    BY <1>1, <2>5
  <2>9. phase' = "done" /\ job' = "functions"
    BY <1>1, <1>3
  <2>10. QED
    BY <2>6, <2>7, <2>8, <2>9 DEF MeasuredInv, AfterScans
<1>10. CountInv'
  BY <1>1, <1>2, <1>3 DEF CountInv
<1>11. ProgressInv'
  <2>1. progress'.current = progress.total /\ progress'.total = progress.total /\ progress'.completed = TRUE
    BY <1>1, <1>5
  <2>2. progress.total \in Nat
    BY <1>5, SizesAre
  <2>3. QED
    BY <1>1, <1>3, <2>1, <2>2 DEF ProgressInv
<1>12. QED
  BY <1>6, <1>7, <1>8, <1>9, <1>10, <1>11 DEF IInv

LEMMA CancelKeeps ==
    ASSUME IInv, Cancel
    PROVE  IInv'
<1>1. UNCHANGED <<job, section, bucket, phase, scanVars, found, candidates, measured, result, count,
                  raced, corrupt>>
  BY DEF Cancel
<1>2. UNCHANGED <<next, wpc, at, end, seen>>
  BY <1>1 DEF scanVars
<1>3. progress' = [progress EXCEPT !.cancelled = TRUE]
  BY DEF Cancel
<1>4. progress \in [current : 0 .. Size, total : 0 .. Size, completed : BOOLEAN, cancelled : BOOLEAN]
  BY DEF IInv, TypeOK, ProgressTypes
<1>5. Handled' = Handled /\ Counted' = Counted
  BY <1>2 DEF Handled, Counted, Pending
<1>6. TypeOK'
  <2>1. ProgressTypes'
    BY <1>1, <1>3, <1>4 DEF IInv, TypeOK, ProgressTypes
  <2>2. WorkerTypes' /\ ScanTypes' /\ ResultTypes'
    BY <1>1, <1>2 DEF IInv, TypeOK, WorkerTypes, ScanTypes, ResultTypes
  <2>3. QED
    BY <2>1, <2>2 DEF TypeOK
<1>7. ChunksInv'
  BY <1>1, <1>2 DEF IInv, ChunksInv, InChunk, Apart, OfPhase, Total
<1>8. FoundInv'
  <2>1. HitsHandled' = HitsHandled
    BY <1>1, <1>5, HitsStay DEF HitsHandled
  <2>2. ASSUME NEW v \in Workers, wpc'[v] = "push" \/ (wpc'[v] = "count" /\ phase' = "scan")
        PROVE  Hit(at[v])'
    <3>1. Hit(at[v])
      BY <1>1, <1>2, <2>2 DEF IInv, FoundInv
    <3>2. QED
      BY <1>1, <1>2, <3>1 DEF Hit
  <2>3. QED
    BY <1>1, <2>1, <2>2, FoundStays DEF IInv
<1>9. MeasuredInv'
  BY <1>1, <1>5, MeasuredStays DEF IInv
<1>10. CountInv'
  <2>1. \A v \in Workers : wpc'[v] = "report" => wpc[v] = "report" /\ seen'[v] = seen[v]
    BY <1>2
  <2>2. QED
    BY <1>1, <1>5, <2>1, CountStays DEF IInv
<1>11. ProgressInv'
  <2>1. /\ progress'.current = progress.current /\ progress'.total = progress.total
        /\ progress'.completed = progress.completed
    BY <1>3, <1>4
  <2>2. QED
    BY <1>1, <2>1, ProgressStays DEF IInv
<1>12. QED
  BY <1>6, <1>7, <1>8, <1>9, <1>10, <1>11 DEF IInv

(* A stage of full_diff_parallel, whose report is in the bounds of its     *)
(* progress.                                                               *)
LEMMA AfterDiffKeeps ==
    ASSUME IInv, NEW from \in {"done", "updated", "sections"},
           NEW to \in {"updated", "sections", "ended"}, NEW p, AfterDiff(from, to, p),
           p \in [current : 0 .. Size, total : 0 .. Size, completed : BOOLEAN, cancelled : BOOLEAN],
           p.current <= p.total, p.completed <=> to # "sections",
           to = "updated" => p.total = Size, to = "ended" => p.current = p.total
    PROVE  IInv'
<1>1. /\ UNCHANGED <<job, section, bucket, scanVars, found, candidates, measured, result, count,
                     raced, corrupt>>
      /\ job = "diff" /\ phase = from /\ phase' = to /\ progress' = p
  BY DEF AfterDiff
<1>2. UNCHANGED <<next, wpc, at, end, seen>>
  BY <1>1 DEF scanVars
<1>3. \A w \in Workers : wpc[w] = "free"
  BY <1>1 DEF IInv, ChunksInv, OfPhase
<1>4. TypeOK'
  <2>1. ProgressTypes'
    BY <1>1 DEF IInv, TypeOK, ProgressTypes
  <2>2. WorkerTypes' /\ ScanTypes' /\ ResultTypes'
    BY <1>1, <1>2 DEF IInv, TypeOK, WorkerTypes, ScanTypes, ResultTypes
  <2>3. QED
    BY <2>1, <2>2 DEF TypeOK
<1>5. ChunksInv'
  BY <1>1, <1>2, <1>3 DEF IInv, ChunksInv, Total
<1>6. FoundInv'
  <2>1. HitsHandled' = HitsHandled
    BY <1>1, HitsStay DEF HitsHandled
  <2>2. \A v \in Workers : ~(wpc'[v] = "push" \/ (wpc'[v] = "count" /\ phase' = "scan"))
    BY <1>2, <1>3
  <2>3. QED
    BY <1>1, <2>1, <2>2, FoundStays DEF IInv
<1>7. MeasuredInv'
  <2>1. Merged' = Merged
    BY <1>1 DEF Merged, AllFound, FoundAt
  <2>2. candidates = Merged /\ result = Merged /\ {measured[k] : k \in DOMAIN measured} = {}
    BY <1>1 DEF IInv, MeasuredInv, AfterScans
  <2>3. {measured[k] : k \in DOMAIN measured}' = {}
    BY <1>1, <2>2
  <2>4. candidates' = Merged' /\ result' = Merged'
    BY <1>1, <2>1, <2>2
  <2>5. job' = "diff" /\ phase' \in AfterScans /\ phase' # "measure"
    BY <1>1 DEF AfterScans
  <2>6. QED
    BY <2>3, <2>4, <2>5 DEF MeasuredInv
<1>8. CountInv'
  BY <1>1, <1>2, <1>3 DEF CountInv
<1>9. ProgressInv'
  BY <1>1 DEF ProgressInv
<1>10. QED
  BY <1>4, <1>5, <1>6, <1>7, <1>8, <1>9 DEF IInv

LEMMA FullDiffKeeps ==
    ASSUME IInv, UpdateDiff \/ StartSections \/ CompleteSections
    PROVE  IInv'
<1>1. progress \in [current : 0 .. Size, total : 0 .. Size, completed : BOOLEAN, cancelled : BOOLEAN]
  BY DEF IInv, TypeOK, ProgressTypes
<1>2. CASE UpdateDiff
  <2> DEFINE p == Updated(progress, Len(result))
  <2>1. AfterDiff("done", "updated", p) /\ phase = "done" /\ job = "diff"
    BY <1>2 DEF UpdateDiff, AfterDiff
  <2>2. result = Merged /\ candidates = Merged
    BY <2>1 DEF IInv, MeasuredInv, AfterScans
  <2>3. Len(result) \in 0 .. Size
    BY <2>1, <2>2, CandidateFacts
  <2>4. progress.total = Size /\ progress.completed = TRUE
    BY <1>1, <2>1 DEF IInv, ProgressInv
  <2>5. /\ p \in [current : 0 .. Size, total : 0 .. Size, completed : BOOLEAN, cancelled : BOOLEAN]
        /\ p.current = Len(result) /\ p.total = Size /\ p.completed = TRUE
    BY <1>1, <2>3, <2>4 DEF Updated
  <2>6. p.current <= p.total
    BY <2>3, <2>5
  <2> HIDE DEF p
  <2>7. QED
    BY <2>1, <2>5, <2>6, AfterDiffKeeps
<1>3. CASE StartSections
  <2> DEFINE p == Started(1)
  <2>1. AfterDiff("updated", "sections", p)
    BY <1>3 DEF StartSections
  <2>2. 0 \in 0 .. Size /\ 1 \in 0 .. Size
    BY SizesAre
  <2>3. /\ p \in [current : 0 .. Size, total : 0 .. Size, completed : BOOLEAN, cancelled : BOOLEAN]
        /\ p.current = 0 /\ p.total = 1 /\ p.completed = FALSE
    BY <2>2 DEF Started
  <2>4. p.current <= p.total
    BY <2>3
  <2> HIDE DEF p
  <2>5. QED
    BY <2>1, <2>3, <2>4, AfterDiffKeeps
<1>4. CASE CompleteSections
  <2> DEFINE p == Completed(progress)
  <2>1. AfterDiff("sections", "ended", p)
    BY <1>4 DEF CompleteSections
  <2>2. /\ p \in [current : 0 .. Size, total : 0 .. Size, completed : BOOLEAN, cancelled : BOOLEAN]
        /\ p.current = progress.total /\ p.total = progress.total /\ p.completed = TRUE
    BY <1>1 DEF Completed
  <2>3. p.current <= p.total
    BY <1>1, <2>2, SizesAre
  <2> HIDE DEF p
  <2>4. QED
    BY <2>1, <2>2, <2>3, AfterDiffKeeps
<1>5. QED
  BY <1>2, <1>3, <1>4

LEMMA InitHolds == Init => IInv
<1> SUFFICES ASSUME Init PROVE IInv
  OBVIOUS
<1>1. /\ job \in {"functions", "diff"} /\ section \in Sections /\ bucket \in [Workers -> Buckets]
      /\ phase = "scan" /\ next = 0 /\ wpc = [w \in Workers |-> "free"]
      /\ at = [w \in Workers |-> 0] /\ end = [w \in Workers |-> 0] /\ seen = [w \in Workers |-> 0]
      /\ found = [b \in Buckets |-> << >>] /\ candidates = << >> /\ measured = << >> /\ result = << >>
      /\ count = 0 /\ progress = Started(Size) /\ raced = FALSE /\ corrupt = FALSE
  BY DEF Init
<1>2. Size \in Nat /\ 0 \in 0 .. Size /\ Size \in 0 .. Size
  BY SizesAre
<1>3. TypeOK
  <2>1. ResultTypes
    BY <1>1, EmptySeq DEF ResultTypes
  <2>2. WorkerTypes /\ ScanTypes
    BY <1>1, <1>2 DEF WorkerTypes, ScanTypes
  <2>3. ProgressTypes
    BY <1>1, <1>2 DEF ProgressTypes, Started
  <2>4. QED
    BY <2>1, <2>2, <2>3 DEF TypeOK
<1>4. ChunksInv
  BY <1>1, <1>2 DEF ChunksInv, Total
<1>5. Handled = {} /\ Counted = {} /\ HitsHandled = {}
  BY <1>1 DEF Handled, Counted, HitsHandled
<1>6. FoundInv
  <2>1. \A b \in Buckets : found[b] = << >> /\ DOMAIN found[b] = {}
    BY <1>1
  <2>2. AllFound = {}
    BY <2>1 DEF AllFound, FoundAt
  <2>3. FoundOnce
    BY <2>1 DEF FoundOnce
  <2>4. QED
    BY <1>1, <1>5, <2>2, <2>3 DEF FoundInv
<1>7. MeasuredInv
  <2>1. {measured[k] : k \in DOMAIN measured} = {}
    BY <1>1
  <2>2. QED
    BY <1>1, <2>1 DEF MeasuredInv, AfterScans
<1>8. CountInv
  <2>1. Cardinality(Counted \cap Hits) = 0
    BY <1>5, FS_EmptySet
  <2>2. QED
    BY <1>1, <2>1 DEF CountInv
<1>9. ProgressInv
  BY <1>1, <1>2 DEF ProgressInv, Started
<1>10. QED
  BY <1>3, <1>4, <1>6, <1>7, <1>8, <1>9 DEF IInv

LEMMA StutterKeeps ==
    ASSUME IInv, UNCHANGED vars
    PROVE  IInv'
<1>1. UNCHANGED <<job, section, bucket, phase, next, wpc, at, end, seen, found, candidates, measured,
                  result, count, progress, raced, corrupt>>
  BY DEF vars, scanVars
<1>2. Handled' = Handled /\ Counted' = Counted
  BY <1>1 DEF Handled, Counted, Pending
<1>3. TypeOK'
  BY <1>1 DEF IInv, TypeOK, WorkerTypes, ScanTypes, ResultTypes, ProgressTypes
<1>4. ChunksInv'
  BY <1>1 DEF IInv, ChunksInv, InChunk, Apart, OfPhase, Total
<1>5. FoundInv'
  <2>1. HitsHandled' = HitsHandled
    BY <1>1, <1>2, HitsStay DEF HitsHandled
  <2>2. ASSUME NEW v \in Workers, wpc'[v] = "push" \/ (wpc'[v] = "count" /\ phase' = "scan")
        PROVE  Hit(at[v])'
    <3>1. Hit(at[v])
      BY <1>1, <2>2 DEF IInv, FoundInv
    <3>2. QED
      BY <1>1, <3>1 DEF Hit
  <2>3. QED
    BY <1>1, <2>1, <2>2, FoundStays DEF IInv
<1>6. MeasuredInv'
  BY <1>1, <1>2, MeasuredStays DEF IInv
<1>7. CountInv'
  <2>1. \A v \in Workers : wpc'[v] = "report" => wpc[v] = "report" /\ seen'[v] = seen[v]
    BY <1>1
  <2>2. QED
    BY <1>1, <1>2, <2>1, CountStays DEF IInv
<1>8. ProgressInv'
  BY <1>1, ProgressStays DEF IInv
<1>9. QED
  BY <1>3, <1>4, <1>5, <1>6, <1>7, <1>8 DEF IInv

-----------------------------------------------------------------------------
(* The theorems.                                                           *)

(* What a chunk's worker has is its own; what is in the buckets are the    *)
(* hits handled, each once and, unless two workers met, all; and counters  *)
(* and progress are what was counted: in every state of every scan.        *)
THEOREM Inductive == SafeSpec => []IInv
<1>1. Init => IInv
  BY InitHolds
<1>2. IInv /\ [Next]_vars => IInv'
  <2> SUFFICES ASSUME IInv, [Next]_vars PROVE IInv'
    OBVIOUS
  <2>1. ASSUME NEW w \in Workers, Take(w) PROVE IInv'
    BY <2>1, TakeKeeps
  <2>2. ASSUME NEW w \in Workers, FinishChunk(w) PROVE IInv'
    BY <2>2, FinishChunkKeeps
  <2>3. ASSUME NEW w \in Workers, ScanTo(w) PROVE IInv'
    BY <2>3, ScanToKeeps
  <2>4. ASSUME NEW w \in Workers, Push(w) PROVE IInv'
    BY <2>4, PushKeeps
  <2>5. ASSUME NEW w \in Workers, Measure(w) PROVE IInv'
    BY <2>5, MeasureKeeps
  <2>6. ASSUME NEW w \in Workers, Count(w) PROVE IInv'
    BY <2>6, CountKeeps
  <2>7. ASSUME NEW w \in Workers, ReadCount(w) PROVE IInv'
    BY <2>7, ReadCountKeeps
  <2>8. ASSUME NEW w \in Workers, Report(w) PROVE IInv'
    BY <2>8, ReportKeeps
  <2>9. CASE Merge
    BY <2>9, MergeKeeps
  <2>10. CASE Resolve
    BY <2>10, ResolveKeeps
  <2>11. CASE Cancel
    BY <2>11, CancelKeeps
  <2>12. CASE UpdateDiff \/ StartSections \/ CompleteSections
    BY <2>12, FullDiffKeeps
  <2>13. CASE UNCHANGED vars
    BY <2>13, StutterKeeps
  <2>14. QED
    BY <2>1, <2>2, <2>3, <2>4, <2>5, <2>6, <2>7, <2>8, <2>9, <2>10, <2>11, <2>12, <2>13 DEF Next
<1>3. QED
  BY <1>1, <1>2, PTL DEF SafeSpec

(* Every variable has values of its type.                                  *)
THEOREM TypeCorrect == SafeSpec => []TypeOK
<1>1. IInv => TypeOK
  BY DEF IInv
<1>2. QED
  BY <1>1, Inductive, PTL

(* A progress never shows more than its total, is complete only when no    *)
(* worker can report any more, and then shows all.                         *)
THEOREM ProgressIsFull == SafeSpec => []ProgressEndsFull
<1>1. IInv => ProgressEndsFull
  <2> SUFFICES ASSUME IInv PROVE ProgressEndsFull
    OBVIOUS
  <2>1. ProgressInv
    BY DEF IInv
  <2>2. ASSUME progress.completed, NEW w \in Workers PROVE wpc[w] = "free"
    BY <2>1, <2>2 DEF IInv, ChunksInv, OfPhase, ProgressInv
  <2>3. ASSUME progress.completed, phase # "updated" PROVE progress.current = progress.total
    BY <2>1, <2>3 DEF ProgressInv
  <2>4. QED
    BY <2>1, <2>2, <2>3 DEF ProgressEndsFull, ProgressInv
<1>2. QED
  BY <1>1, Inductive, PTL

(* A parallel scan that is done, and in which no two workers met in a      *)
(* bucket, answers what the sequential one does: for every file, however   *)
(* it was cut into chunks and in whatever order they were run.             *)
THEOREM ScansAgree == SafeSpec => []ParallelEqualsSequential
<1>1. IInv => ParallelEqualsSequential
  <2> SUFFICES ASSUME IInv, phase = "done", ~raced PROVE ParallelEqualsSequential
    BY DEF ParallelEqualsSequential
  <2>1. AllFound = Hits /\ section \in Sections /\ job \in {"functions", "diff"}
    BY DEF IInv, FoundInv, HitsHandled, TypeOK, ScanTypes
  <2>2. Merged = Ascending(Hits)
    BY <2>1 DEF Merged
  <2>3. CASE job = "functions"
    <3>1. {measured[k] : k \in DOMAIN measured} = {Fn(candidates[k]) : k \in DOMAIN candidates}
      BY <2>3 DEF IInv, MeasuredInv, AfterScans
    <3>2. {candidates[k] : k \in DOMAIN candidates} = Hits
      <4>1. /\ DOMAIN Merged = 1 .. Len(Merged)
            /\ {Merged[k] : k \in 1 .. Len(Merged)} = AllFound
        BY <2>1, MergedType
      <4>2. candidates = Merged
        BY CandidateFacts
      <4>3. QED
        BY <2>1, <4>1, <4>2
    <3>3. {Fn(candidates[k]) : k \in DOMAIN candidates} = {Fn(i) : i \in Hits}
      <4>1. {Fn(candidates[k]) : k \in DOMAIN candidates} =
               {Fn(i) : i \in {candidates[k] : k \in DOMAIN candidates}}
        OBVIOUS
      <4>2. QED
        BY <3>2, <4>1, Zenon
    <3>4. ByStart(measured) = Fns(Ascending(Hits))
      BY <2>1, <3>1, <3>3, ByStartOrders
    <3>5. result = Resolved(ByStart(measured))
      BY <2>3 DEF IInv, MeasuredInv, AfterScans
    <3>6. FindFunctions = Resolved(Fns(Ascending(Hits)))
      BY <2>1, <2>3, FindFunctionsKeeps
    <3>7. QED
      BY <2>3, <3>4, <3>5, <3>6 DEF ParallelEqualsSequential
  <2>4. CASE job = "diff"
    <3>1. result = Ascending(Hits)
      BY <2>2, <2>4 DEF IInv, MeasuredInv, AfterScans
    <3> DEFINE zeros == [i \in 1 .. Size |-> 0]
               diffs == ByteDiff(zeros, Changed(zeros))
    <3>2. OffsetsOf(diffs) = Ascending(Hits)
      <4>1. \A z : z = [i \in 1 .. Size |-> 0] => OffsetsOf(ByteDiff(z, Changed(z))) = Ascending(Hits)
        BY <2>1, <2>4, ByteDiffIsHits
      <4>2. zeros = [i \in 1 .. Size |-> 0]
        OBVIOUS
      <4> HIDE DEF zeros
      <4>3. QED
        BY <4>1, <4>2
    <3>3. result = [k \in DOMAIN diffs |-> diffs[k].offset]
      <4> HIDE DEF diffs
      <4>1. QED
        BY <3>1, <3>2 DEF OffsetsOf
    <3>4. job # "functions"
      BY <2>4
    <3>5. QED
      BY <3>3, <3>4, Zenon DEF ParallelEqualsSequential
  <2>5. QED
    BY <2>1, <2>3, <2>4
<1>2. QED
  BY <1>1, Inductive, PTL
-----------------------------------------------------------------------------
(* The chunks of the differences of two files of any bytes.                *)

Chunks(V) == [offset : Nat, old : Seq(V), new : Seq(V)]
Differing(V) == [offset : Nat, old : V, new : V]

(* A chunk has the bytes of both files at its place, and they differ.      *)
IsChunk(V, old, new, k) ==
    /\ k \in Chunks(V)
    /\ Len(k.old) \in Nat \ {0} /\ Len(k.new) = Len(k.old)
    /\ EndOf(k) <= Len(old) /\ EndOf(k) <= Len(new)
    /\ \A j \in 1 .. Len(k.old) :
          k.old[j] = old[k.offset + j] /\ k.new[j] = new[k.offset + j] /\ k.old[j] # k.new[j]

(* A difference is of two bytes that are at one place.                     *)
IsDifference(V, old, new, d) ==
    /\ d \in Differing(V)
    /\ d.offset < Len(old) /\ d.offset < Len(new)
    /\ d.old = old[d.offset + 1] /\ d.new = new[d.offset + 1] /\ d.old # d.new

LEMMA ChunkIs ==
    ASSUME NEW V, NEW old \in Seq(V), NEW new \in Seq(V), NEW d, IsDifference(V, old, new, d)
    PROVE  /\ IsChunk(V, old, new, Chunk(d)) /\ EndOf(Chunk(d)) = d.offset + 1
           /\ Chunk(d).offset = d.offset
<1>1. /\ d.offset \in Nat /\ d.old \in V /\ d.new \in V /\ d.old # d.new
      /\ d.old = old[d.offset + 1] /\ d.new = new[d.offset + 1]
      /\ d.offset < Len(old) /\ d.offset < Len(new) /\ Len(old) \in Nat /\ Len(new) \in Nat
  BY LenProperties DEF IsDifference, Differing
<1> DEFINE k == Chunk(d)
<1>2. k.offset = d.offset /\ k.old = <<d.old>> /\ k.new = <<d.new>> /\ k \in Chunks(V)
  BY <1>1 DEF Chunk, Chunks
<1>3. Len(k.old) = 1 /\ Len(k.new) = 1 /\ k.old[1] = d.old /\ k.new[1] = d.new
  BY <1>2
<1> HIDE DEF k
<1>4. EndOf(k) = d.offset + 1
  BY <1>2, <1>3 DEF EndOf
<1>5. ASSUME NEW j \in 1 .. Len(k.old)
      PROVE  k.old[j] = old[k.offset + j] /\ k.new[j] = new[k.offset + j] /\ k.old[j] # k.new[j]
  <2>1. j = 1
    BY <1>3
  <2>2. QED
    BY <1>1, <1>2, <1>3, <2>1
<1>6. IsChunk(V, old, new, k)
  BY <1>1, <1>2, <1>3, <1>4, <1>5 DEF IsChunk
<1>7. QED
  BY <1>2, <1>4, <1>6 DEF k

(* A chunk with the difference that begins where it ends.                  *)
Grown(k, d) == [k EXCEPT !.old = Append(@, d.old), !.new = Append(@, d.new)]

LEMMA GrownIs ==
    ASSUME NEW V, NEW old \in Seq(V), NEW new \in Seq(V), NEW d, IsDifference(V, old, new, d),
           NEW k, IsChunk(V, old, new, k), EndOf(k) = d.offset
    PROVE  /\ IsChunk(V, old, new, Grown(k, d)) /\ EndOf(Grown(k, d)) = d.offset + 1
           /\ Grown(k, d).offset = k.offset
<1>1. /\ d.offset \in Nat /\ d.old \in V /\ d.new \in V /\ d.old # d.new
      /\ d.old = old[d.offset + 1] /\ d.new = new[d.offset + 1]
      /\ d.offset < Len(old) /\ d.offset < Len(new) /\ Len(old) \in Nat /\ Len(new) \in Nat
  BY LenProperties DEF IsDifference, Differing
<1>2. /\ k \in Chunks(V) /\ Len(k.old) \in Nat \ {0} /\ Len(k.new) = Len(k.old)
      /\ k.offset \in Nat /\ k.old \in Seq(V) /\ k.new \in Seq(V)
      /\ \A j \in 1 .. Len(k.old) :
          k.old[j] = old[k.offset + j] /\ k.new[j] = new[k.offset + j] /\ k.old[j] # k.new[j]
  BY DEF IsChunk, Chunks
<1>3. d.offset = k.offset + Len(k.old)
  BY DEF EndOf
<1> DEFINE g == Grown(k, d)
           a == Append(k.old, d.old)
           b == Append(k.new, d.new)
<1>4. g.offset = k.offset /\ g.old = a /\ g.new = b /\ g = [k EXCEPT !.old = a, !.new = b]
  BY <1>2 DEF Grown, Chunks
<1>5. /\ a \in Seq(V) /\ Len(a) = Len(k.old) + 1 /\ a[Len(k.old) + 1] = d.old
      /\ \A j \in 1 .. Len(k.old) : a[j] = k.old[j]
  BY <1>1, <1>2, AppendProperties
<1>6. /\ b \in Seq(V) /\ Len(b) = Len(k.new) + 1 /\ b[Len(k.new) + 1] = d.new
      /\ \A j \in 1 .. Len(k.new) : b[j] = k.new[j]
  BY <1>1, <1>2, AppendProperties
<1> HIDE DEF g, a, b
<1>7. g \in Chunks(V)
  BY <1>2, <1>4, <1>5, <1>6 DEF Chunks
<1>8. EndOf(g) = d.offset + 1
  <2>1. EndOf(g) = k.offset + (Len(k.old) + 1)
    BY <1>4, <1>5 DEF EndOf
  <2>2. \A x, y, z \in Nat : z = x + y => x + (y + 1) = z + 1
    OBVIOUS
  <2>3. QED
    BY <1>1, <1>2, <1>3, <2>1, <2>2
<1>9. ASSUME NEW j \in 1 .. Len(g.old)
      PROVE  g.old[j] = old[g.offset + j] /\ g.new[j] = new[g.offset + j] /\ g.old[j] # g.new[j]
  <2>1. j \in 1 .. Len(k.old) \/ j = Len(k.old) + 1
    BY <1>2, <1>4, <1>5
  <2>2. CASE j \in 1 .. Len(k.old)
    BY <1>2, <1>4, <1>5, <1>6, <2>2
  <2>3. CASE j = Len(k.old) + 1
    <3>1. g.offset + j = d.offset + 1
      <4>1. \A x, y, z \in Nat : z = x + y => x + (y + 1) = z + 1
        OBVIOUS
      <4>2. QED
        BY <1>1, <1>2, <1>3, <1>4, <2>3, <4>1
    <3>2. QED
      BY <1>1, <1>2, <1>4, <1>5, <1>6, <2>3, <3>1
  <2>4. QED
    BY <2>1, <2>2, <2>3
<1>10. Len(g.old) \in Nat \ {0} /\ Len(g.new) = Len(g.old)
  BY <1>2, <1>4, <1>5, <1>6
<1>11. IsChunk(V, old, new, g)
  BY <1>1, <1>7, <1>8, <1>9, <1>10 DEF IsChunk
<1>12. QED
  BY <1>4, <1>8, <1>11 DEF g

-----------------------------------------------------------------------------
(* Chunk by chunk.                                                         *)

(* What AddToChunks makes of a list of chunks: the last one is grown, or   *)
(* there is one more.                                                      *)
Extended(s, d, t) ==
    \/ /\ s # << >> /\ EndOf(s[Len(s)]) = d.offset
       /\ Len(t) = Len(s) /\ t[Len(s)] = Grown(s[Len(s)], d)
       /\ \A c \in 1 .. Len(s) : c # Len(s) => t[c] = s[c]
    \/ /\ s # << >> => EndOf(s[Len(s)]) # d.offset
       /\ Len(t) = Len(s) + 1 /\ t[Len(s) + 1] = Chunk(d)
       /\ \A c \in 1 .. Len(s) : t[c] = s[c]

LEMMA GrownType ==
    ASSUME NEW V, NEW k \in Chunks(V), NEW d \in Differing(V)
    PROVE  Grown(k, d) \in Chunks(V)
<1>1. k.old \in Seq(V) /\ k.new \in Seq(V) /\ k.offset \in Nat /\ d.old \in V /\ d.new \in V
  BY DEF Chunks, Differing
<1> DEFINE a == Append(k.old, d.old)
           b == Append(k.new, d.new)
<1>2. a \in Seq(V) /\ b \in Seq(V)
  BY <1>1, AppendProperties
<1>3. Grown(k, d) = [k EXCEPT !.old = a, !.new = b]
  BY <1>1 DEF Grown, Chunks
<1> HIDE DEF a, b
<1>4. QED
  BY <1>1, <1>2, <1>3 DEF Chunks

LEMMA AddedIs ==
    ASSUME NEW V, NEW s \in Seq(Chunks(V)), NEW d \in Differing(V)
    PROVE  AddToChunks(s, d) \in Seq(Chunks(V)) /\ Extended(s, d, AddToChunks(s, d))
<1> DEFINE n == Len(s)
           t == AddToChunks(s, d)
           E == Chunks(V)
<1>1. n \in Nat /\ DOMAIN s = 1 .. n /\ s \in [1 .. n -> E]
  BY LenProperties
<1>2. CASE s # << >> /\ EndOf(s[n]) = d.offset
  <2>1. n \in 1 .. n
    BY <1>1, <1>2, EmptySeq
  <2>2. s[n] \in E
    BY <1>1, <2>1
  <2>3. t = [s EXCEPT ![n].old = Append(@, d.old), ![n].new = Append(@, d.new)]
    BY <1>2 DEF AddToChunks, Last
  <2>4. t = [s EXCEPT ![n] = Grown(s[n], d)]
    <3>1. [s EXCEPT ![n].old = Append(@, d.old), ![n].new = Append(@, d.new)]
            = [s EXCEPT ![n] = [s[n] EXCEPT !.old = Append(@, d.old), !.new = Append(@, d.new)]]
      BY <1>1, <2>1, <2>2
    <3>2. QED
      BY <2>3, <3>1 DEF Grown
  <2> HIDE DEF t, n, E
  <2>5. Grown(s[n], d) \in E
    BY <2>2, GrownType DEF E
  <2>6. t \in [1 .. n -> E] /\ t[n] = Grown(s[n], d) /\ \A c \in 1 .. n : c # n => t[c] = s[c]
    BY <1>1, <2>1, <2>4, <2>5
  <2>7. t \in Seq(E) /\ Len(t) = n
    BY <1>1, <2>6, SeqDef, LenProperties
  <2>8. Extended(s, d, t)
    BY <1>2, <2>6, <2>7 DEF Extended, n
  <2>9. QED
    BY <2>7, <2>8 DEF t, E
<1>3. CASE ~(s # << >> /\ EndOf(s[n]) = d.offset)
  <2>1. t = Append(s, Chunk(d))
    BY <1>3 DEF AddToChunks, Last
  <2>2. Chunk(d) \in E
    BY DEF Chunk, Chunks, Differing
  <2> HIDE DEF t, n, E
  <2>3. /\ t \in Seq(E) /\ Len(t) = n + 1 /\ t[n + 1] = Chunk(d)
        /\ \A c \in 1 .. n : t[c] = s[c]
    BY <2>1, <2>2, AppendProperties DEF n, E
  <2>4. Extended(s, d, t)
    BY <1>3, <2>3 DEF Extended, n
  <2>5. QED
    BY <2>3, <2>4 DEF t, E
<1>4. QED
  BY <1>2, <1>3

(* The chunks made of a list of differences, one after the other.          *)
Making(g, diffs) ==
    /\ g[0] = << >> /\ MakeChunks(diffs) = g[Len(diffs)]
    /\ \A n \in 1 .. Len(diffs) : g[n] = AddToChunks(g[n - 1], diffs[n])

LEMMA MadeBy ==
    ASSUME NEW V, NEW diffs \in Seq(Differing(V))
    PROVE  \E g : Making(g, diffs)
<1> DEFINE N == Len(diffs)
           S == Seq(Chunks(V))
           Round(s, n) == AddToChunks(s, diffs[n])
           h == [x \in S \X (1 .. N) |-> Round(x[1], x[2])]
           Def(f) == f = [n \in 0 .. N |-> IF n = 0 THEN << >> ELSE Round(f[n - 1], n)]
           g == CHOOSE f : Def(f)
<1>1. N \in Nat /\ \A n \in 1 .. N : diffs[n] \in Differing(V)
  BY LenProperties, ElementOfSeq
<1>2. \A s \in S, n \in 1 .. N : Round(s, n) \in S
  BY <1>1, AddedIs
<1>3. << >> \in S
  BY EmptySeq
<1>4. MakeChunks(diffs) = g[N]
  BY DEF MakeChunks
<1> HIDE DEF Round
<1>5. h \in [S \X (1 .. N) -> S]
  BY <1>2
<1>6. \E f : Def(f)
  <2>1. PICK f : Iterates(f, S, << >>, N, h)
    <3> HIDE DEF h, S, N
    <3>1. QED
      BY <1>1, <1>3, <1>5, Recursion
  <2> HIDE DEF S, N
  <2>2. ASSUME NEW n \in 0 .. N
        PROVE  f[n] = IF n = 0 THEN << >> ELSE Round(f[n - 1], n)
    <3>1. CASE n = 0
      BY <2>1, <3>1 DEF Iterates
    <3>2. CASE n # 0
      <4>1. n \in 1 .. N /\ n - 1 \in 0 .. N
        BY <1>1, <3>2
      <4>2. f[n - 1] \in S
        BY <2>1, <4>1 DEF Iterates
      <4>3. <<f[n - 1], n>> \in S \X (1 .. N)
        BY <4>1, <4>2
      <4>4. h[<<f[n - 1], n>>] = Round(f[n - 1], n)
        BY <4>3
      <4>5. QED
        BY <2>1, <3>2, <4>1, <4>4 DEF Iterates
    <3>3. QED
      BY <3>1, <3>2
  <2>3. f = [n \in 0 .. N |-> IF n = 0 THEN << >> ELSE Round(f[n - 1], n)]
    BY <2>1, <2>2 DEF Iterates
  <2>4. QED
    BY <2>3
<1>7. Def(g)
  BY <1>6
<1> HIDE DEF g
<1>8. g[0] = << >> /\ \A n \in 1 .. N : g[n] = AddToChunks(g[n - 1], diffs[n])
  <2>1. 0 \in 0 .. N /\ \A n \in 1 .. N : n \in 0 .. N /\ n # 0
    BY <1>1
  <2>2. ASSUME NEW n \in 0 .. N
        PROVE  g[n] = IF n = 0 THEN << >> ELSE Round(g[n - 1], n)
    BY <1>7
  <2>3. QED
    BY <2>1, <2>2 DEF Round
<1>9. Making(g, diffs)
  BY <1>4, <1>8 DEF Making
<1>10. QED
  BY <1>9

(* A list of all the differences of two files, in order.                   *)
AreDifferences(V, old, new, diffs) ==
    /\ diffs \in Seq(Differing(V))
    /\ \A m \in 1 .. Len(diffs) : IsDifference(V, old, new, diffs[m])
    /\ \A m \in 1 .. Len(diffs) : m > 1 => diffs[m - 1].offset < diffs[m].offset
    /\ \A i \in Nat : i < Len(old) /\ i < Len(new) /\ old[i + 1] # new[i + 1] =>
                        \E m \in 1 .. Len(diffs) : diffs[m].offset = i

(* The chunks of the first n differences: they hold these, with an equal   *)
(* byte between any two, and the last ends behind the nth.                 *)
Cover(diffs, n, s) ==
    \A m \in 1 .. n : \E c \in 1 .. Len(s) :
        s[c].offset <= diffs[m].offset /\ diffs[m].offset < EndOf(s[c])
Parted(s) == \A c \in 1 .. Len(s) : c > 1 => EndOf(s[c - 1]) < s[c].offset
LastEnds(diffs, n, s) ==
    IF n = 0 THEN s = << >> ELSE s # << >> /\ EndOf(s[Len(s)]) = diffs[n].offset + 1

ChunksOf(V, old, new, diffs, n, s) ==
    /\ s \in Seq(Chunks(V)) /\ \A c \in 1 .. Len(s) : IsChunk(V, old, new, s[c])
    /\ Cover(diffs, n, s) /\ Parted(s) /\ LastEnds(diffs, n, s)

LEMMA NextDifference ==
    ASSUME NEW V, NEW old \in Seq(V), NEW new \in Seq(V), NEW diffs,
           AreDifferences(V, old, new, diffs), NEW n \in 1 .. Len(diffs), NEW s, NEW t,
           ChunksOf(V, old, new, diffs, n - 1, s), t \in Seq(Chunks(V)), Extended(s, diffs[n], t)
    PROVE  ChunksOf(V, old, new, diffs, n, t)
<1> DEFINE d == diffs[n]
           L == Len(s)
<1>1. /\ L \in Nat /\ Len(t) \in Nat /\ Len(diffs) \in Nat /\ n \in Nat /\ n > 0
      /\ IsDifference(V, old, new, d) /\ d.offset \in Nat
      /\ s = << >> <=> L = 0
  BY LenProperties, EmptySeq DEF AreDifferences, ChunksOf, IsDifference, Differing
<1>2. /\ \A c \in 1 .. L : IsChunk(V, old, new, s[c])
      /\ \A c \in 1 .. L : s[c].offset \in Nat /\ EndOf(s[c]) \in Nat /\ s[c].offset < EndOf(s[c])
  <2>1. ASSUME NEW k, IsChunk(V, old, new, k)
        PROVE  k.offset \in Nat /\ EndOf(k) \in Nat /\ k.offset < EndOf(k)
    <3>1. k.offset \in Nat /\ Len(k.old) \in Nat \ {0}
      BY <2>1 DEF IsChunk, Chunks
    <3>2. EndOf(k) = k.offset + Len(k.old)
      BY DEF EndOf
    <3>3. QED
      BY <3>1, <3>2
  <2>2. \A c \in 1 .. L : IsChunk(V, old, new, s[c])
    BY DEF ChunksOf
  <2>3. QED
    BY <2>1, <2>2
<1>3. Cover(diffs, n - 1, s) /\ Parted(s) /\ LastEnds(diffs, n - 1, s)
  BY DEF ChunksOf
<1>4. ASSUME L > 0 PROVE EndOf(s[L]) <= d.offset
  <2>1. n # 1
    BY <1>1, <1>3, <1>4 DEF LastEnds
  <2>2. /\ n - 1 \in 1 .. Len(diffs) /\ n - 1 # 0 /\ n > 1
        /\ diffs[n - 1].offset < diffs[n].offset
    BY <1>1, <2>1 DEF AreDifferences
  <2>3. EndOf(s[L]) = diffs[n - 1].offset + 1
    BY <1>3, <2>2 DEF LastEnds
  <2>4. diffs[n - 1].offset \in Nat
    BY <2>2 DEF AreDifferences, IsDifference, Differing
  <2>5. QED
    BY <1>1, <2>2, <2>3, <2>4
<1>5. \A m \in 1 .. n : m = n \/ m \in 1 .. n - 1
  BY <1>1
<1>6. CASE /\ s # << >> /\ EndOf(s[L]) = d.offset
           /\ Len(t) = L /\ t[L] = Grown(s[L], d)
           /\ \A c \in 1 .. L : c # L => t[c] = s[c]
  <2>1. L \in 1 .. L /\ L > 0 /\ t # << >>
    BY <1>1, <1>6
  <2>2. /\ IsChunk(V, old, new, t[L]) /\ EndOf(t[L]) = d.offset + 1
        /\ t[L].offset = s[L].offset
    BY <1>1, <1>2, <1>6, <2>1, GrownIs
  <2>3. \A c \in 1 .. L : /\ IsChunk(V, old, new, t[c]) /\ t[c].offset = s[c].offset
                          /\ c # L => EndOf(t[c]) = EndOf(s[c])
    BY <1>2, <1>6, <2>2
  <2>4. Parted(t)
    <3> SUFFICES ASSUME NEW c \in 1 .. L, c > 1 PROVE EndOf(t[c - 1]) < t[c].offset
      BY <1>6 DEF Parted
    <3>1. c - 1 \in 1 .. L /\ c - 1 # L
      BY <1>1
    <3>2. EndOf(s[c - 1]) < s[c].offset
      BY <1>3 DEF Parted
    <3>3. EndOf(t[c - 1]) = EndOf(s[c - 1]) /\ t[c].offset = s[c].offset
      BY <2>3, <3>1
    <3>4. QED
      BY <3>2, <3>3
  <2>5. ASSUME NEW m \in 1 .. n
        PROVE  \E c \in 1 .. L : t[c].offset <= diffs[m].offset /\ diffs[m].offset < EndOf(t[c])
    <3>1. CASE m = n
      <4>1. s[L].offset \in Nat /\ s[L].offset < EndOf(s[L]) /\ EndOf(s[L]) = d.offset
        BY <1>2, <1>6, <2>1
      <4>2. t[L].offset <= d.offset /\ d.offset < EndOf(t[L])
        BY <1>1, <2>2, <4>1
      <4>3. QED
        BY <2>1, <3>1, <4>2
    <3>2. CASE m \in 1 .. n - 1
      <4>1. PICK c \in 1 .. L : s[c].offset <= diffs[m].offset /\ diffs[m].offset < EndOf(s[c])
        BY <1>3, <3>2 DEF Cover
      <4>2. t[c].offset <= diffs[m].offset
        BY <2>3, <4>1
      <4>3. diffs[m].offset < EndOf(t[c])
        <5>1. CASE c # L
          BY <2>3, <4>1, <5>1
        <5>2. CASE c = L
          <6>1. m \in 1 .. Len(diffs) /\ diffs[m].offset \in Nat
            BY <1>1, <3>2 DEF AreDifferences, IsDifference, Differing
          <6>2. diffs[m].offset < d.offset
            BY <1>6, <4>1, <5>2
          <6>3. QED
            BY <1>1, <2>2, <5>2, <6>1, <6>2
        <5>3. QED
          BY <5>1, <5>2
      <4>4. QED
        BY <4>2, <4>3
    <3>3. QED
      BY <1>5, <3>1, <3>2
  <2>6. Cover(diffs, n, t)
    BY <1>6, <2>5 DEF Cover
  <2>7. LastEnds(diffs, n, t)
    BY <1>1, <1>6, <2>1, <2>2 DEF LastEnds
  <2>8. QED
    BY <1>6, <2>3, <2>4, <2>6, <2>7 DEF ChunksOf
<1>7. CASE /\ s # << >> => EndOf(s[L]) # d.offset
           /\ Len(t) = L + 1 /\ t[L + 1] = Chunk(d)
           /\ \A c \in 1 .. L : t[c] = s[c]
  <2>1. /\ L + 1 \in 1 .. L + 1 /\ t # << >>
        /\ \A c \in 1 .. L + 1 : c = L + 1 \/ c \in 1 .. L
    BY <1>1, <1>7
  <2>2. /\ IsChunk(V, old, new, t[L + 1]) /\ EndOf(t[L + 1]) = d.offset + 1
        /\ t[L + 1].offset = d.offset
    BY <1>1, <1>7, ChunkIs
  <2>3. \A c \in 1 .. L + 1 : IsChunk(V, old, new, t[c])
    BY <1>2, <1>7, <2>1, <2>2
  <2>4. Parted(t)
    <3> SUFFICES ASSUME NEW c \in 1 .. L + 1, c > 1 PROVE EndOf(t[c - 1]) < t[c].offset
      BY <1>7 DEF Parted
    <3>1. CASE c = L + 1
      <4>1. L > 0 /\ s # << >> /\ c - 1 = L /\ L \in 1 .. L
        BY <1>1, <3>1
      <4>2. EndOf(s[L]) <= d.offset /\ EndOf(s[L]) # d.offset /\ EndOf(s[L]) \in Nat
        BY <1>2, <1>4, <1>7, <4>1
      <4>3. EndOf(s[L]) < d.offset
        BY <1>1, <4>2
      <4>4. QED
        BY <1>7, <2>2, <3>1, <4>1, <4>3
    <3>2. CASE c \in 1 .. L
      <4>1. c - 1 \in 1 .. L
        BY <1>1, <3>2
      <4>2. EndOf(s[c - 1]) < s[c].offset
        BY <1>3, <3>2 DEF Parted
      <4>3. QED
        BY <1>7, <3>2, <4>1, <4>2
    <3>3. QED
      BY <2>1, <3>1, <3>2
  <2>5. ASSUME NEW m \in 1 .. n
        PROVE  \E c \in 1 .. L + 1 :
                  t[c].offset <= diffs[m].offset /\ diffs[m].offset < EndOf(t[c])
    <3>1. CASE m = n
      <4>1. t[L + 1].offset <= d.offset /\ d.offset < EndOf(t[L + 1])
        BY <1>1, <2>2
      <4>2. QED
        BY <2>1, <3>1, <4>1
    <3>2. CASE m \in 1 .. n - 1
      <4>1. PICK c \in 1 .. L : s[c].offset <= diffs[m].offset /\ diffs[m].offset < EndOf(s[c])
        BY <1>3, <3>2 DEF Cover
      <4>2. c \in 1 .. L + 1 /\ t[c] = s[c]
        BY <1>1, <1>7
      <4>3. QED
        BY <4>1, <4>2
    <3>3. QED
      BY <1>5, <3>1, <3>2
  <2>6. Cover(diffs, n, t)
    BY <1>7, <2>5 DEF Cover
  <2>7. LastEnds(diffs, n, t)
    BY <1>1, <1>7, <2>1, <2>2 DEF LastEnds
  <2>8. QED
    BY <1>7, <2>3, <2>4, <2>6, <2>7 DEF ChunksOf
<1>8. QED
  BY <1>6, <1>7 DEF Extended

LEMMA ChunksAreOfAll ==
    ASSUME NEW V, NEW old \in Seq(V), NEW new \in Seq(V), NEW diffs,
           AreDifferences(V, old, new, diffs)
    PROVE  ChunksOf(V, old, new, diffs, Len(diffs), MakeChunks(diffs))
<1>1. diffs \in Seq(Differing(V)) /\ Len(diffs) \in Nat
  BY LenProperties DEF AreDifferences
<1>2. PICK g : Making(g, diffs)
  BY <1>1, MadeBy
<1> DEFINE P == {n \in 0 .. Len(diffs) : ChunksOf(V, old, new, diffs, n, g[n])}
<1>3. 0 \in P
  <2>1. g[0] = << >> /\ << >> \in Seq(Chunks(V)) /\ Len(<< >>) = 0 /\ 0 \in 0 .. Len(diffs)
    BY <1>1, <1>2, EmptySeq DEF Making
  <2>2. Cover(diffs, 0, << >>) /\ Parted(<< >>) /\ LastEnds(diffs, 0, << >>)
    BY <2>1 DEF Cover, Parted, LastEnds
  <2>3. ChunksOf(V, old, new, diffs, 0, << >>)
    BY <2>1, <2>2 DEF ChunksOf
  <2>4. QED
    BY <2>1, <2>3
<1>4. ASSUME NEW n \in 1 .. Len(diffs), n - 1 \in P PROVE n \in P
  <2>1. ChunksOf(V, old, new, diffs, n - 1, g[n - 1]) /\ n \in 0 .. Len(diffs)
    BY <1>1, <1>4
  <2>2. g[n] = AddToChunks(g[n - 1], diffs[n])
    BY <1>2 DEF Making
  <2>3. g[n - 1] \in Seq(Chunks(V)) /\ diffs[n] \in Differing(V)
    BY <1>1, <2>1, ElementOfSeq DEF ChunksOf
  <2>4. g[n] \in Seq(Chunks(V)) /\ Extended(g[n - 1], diffs[n], g[n])
    BY <2>2, <2>3, AddedIs
  <2>5. ChunksOf(V, old, new, diffs, n, g[n])
    BY <2>1, <2>4, NextDifference
  <2>6. QED
    BY <2>1, <2>5
<1>5. Len(diffs) \in P
  <2>1. Len(diffs) \in 0 .. Len(diffs)
    BY <1>1
  <2> HIDE DEF P
  <2>2. QED
    BY <1>1, <1>3, <1>4, <2>1, Induction
<1>6. MakeChunks(diffs) = g[Len(diffs)]
  BY <1>2 DEF Making
<1>7. QED
  BY <1>5, <1>6

LEMMA CommonIs ==
    ASSUME NEW V, NEW old \in Seq(V), NEW new \in Seq(V)
    PROVE  /\ Common(old, new) \in Nat
           /\ \A i \in Nat : i <= Common(old, new) - 1 <=> i < Len(old) /\ i < Len(new)
<1>1. Len(old) \in Nat /\ Len(new) \in Nat
  BY LenProperties
<1>2. \A a, b \in Nat : Min({a, b}) = IF a <= b THEN a ELSE b
  BY DEF Min
<1>3. Common(old, new) = IF Len(old) <= Len(new) THEN Len(old) ELSE Len(new)
  BY <1>1, <1>2 DEF Common
<1>4. QED
  BY <1>1, <1>3

LEMMA ChunksAreRight ==
    ASSUME NEW V, NEW old \in Seq(V), NEW new \in Seq(V), NEW diffs,
           AreDifferences(V, old, new, diffs)
    PROVE  ChunksRebuild(old, new, MakeChunks(diffs))
<1> DEFINE s == MakeChunks(diffs)
           N == Common(old, new)
           Holding(i) == {c \in ToSet(s) : i >= c.offset /\ i < EndOf(c)}
<1>1. ChunksOf(V, old, new, diffs, Len(diffs), s)
  BY ChunksAreOfAll
<1> HIDE DEF s
<1>2. s \in Seq(Chunks(V)) /\ DOMAIN s = 1 .. Len(s) /\ Len(s) \in Nat
  BY <1>1, LenProperties DEF ChunksOf
<1>3. ToSet(s) = {s[c] : c \in 1 .. Len(s)}
  BY <1>2 DEF ToSet
<1>4. ASSUME NEW i \in 0 .. N - 1, Holding(i) = {} PROVE old[i + 1] = new[i + 1]
  <2> SUFFICES ASSUME old[i + 1] # new[i + 1] PROVE FALSE
    OBVIOUS
  <2>1. i \in Nat /\ i < Len(old) /\ i < Len(new)
    BY CommonIs
  <2>2. PICK m \in 1 .. Len(diffs) : diffs[m].offset = i
    BY <2>1 DEF AreDifferences
  <2>3. PICK c \in 1 .. Len(s) : s[c].offset <= i /\ i < EndOf(s[c])
    BY <1>1, <2>2 DEF ChunksOf, Cover
  <2>4. s[c].offset \in Nat
    BY <1>1 DEF ChunksOf, IsChunk, Chunks
  <2>5. s[c] \in Holding(i)
    BY <1>3, <2>1, <2>3, <2>4
  <2>6. QED
    BY <1>4, <2>5
<1>5. ASSUME NEW i \in 0 .. N - 1, NEW k \in Holding(i)
      PROVE  old[i + 1] = k.old[i - k.offset + 1] /\ new[i + 1] = k.new[i - k.offset + 1]
  <2>1. IsChunk(V, old, new, k) /\ i >= k.offset /\ i < EndOf(k)
    BY <1>1, <1>3 DEF ChunksOf
  <2>2. k.offset \in Nat /\ Len(k.old) \in Nat /\ EndOf(k) = k.offset + Len(k.old) /\ i \in Nat
    BY <2>1, CommonIs DEF IsChunk, Chunks, EndOf
  <2>3. i - k.offset + 1 \in 1 .. Len(k.old) /\ k.offset + (i - k.offset + 1) = i + 1
    BY <2>1, <2>2
  <2>4. QED
    BY <2>1, <2>3 DEF IsChunk
<1>6. ASSUME NEW c \in 1 .. Len(s) - 1 PROVE EndOf(s[c]) < s[c + 1].offset
  <2>1. c + 1 \in 1 .. Len(s) /\ c + 1 > 1 /\ (c + 1) - 1 = c
    BY <1>2
  <2>2. QED
    BY <1>1, <2>1 DEF ChunksOf, Parted
<1>7. ChunksRebuild(old, new, s)
  BY <1>4, <1>5, <1>6 DEF ChunksRebuild
<1>8. QED
  BY <1>7 DEF s

-----------------------------------------------------------------------------
(* Patterns and their text.                                                *)

PatternBytes(V) == {Wildcard} \cup {Exactly(v) : v \in V}

LEMMA TokensAre ==
    ASSUME NEW V, NEW p \in Seq(PatternBytes(V)), NEW i \in DOMAIN p
    PROVE  \/ /\ p[i] = Wildcard /\ ToIda(p)[i] = <<"??">> /\ ToCe(p)[i] = <<"*">>
           \/ \E v \in V : /\ p[i] = Exactly(v) /\ p[i] # Wildcard
                           /\ ToIda(p)[i] = <<"hex", v>> /\ ToCe(p)[i] = <<"hex", v>>
<1>1. p[i] \in PatternBytes(V)
  BY LenProperties, ElementOfSeq
<1>2. CASE p[i] = Wildcard
  <2>1. p[i].wildcard
    BY <1>2 DEF Wildcard
  <2>2. QED
    BY <1>2, <2>1, Zenon DEF ToIda, ToCe
<1>3. ASSUME NEW v \in V, p[i] = Exactly(v)
      PROVE  /\ p[i] # Wildcard
             /\ ToIda(p)[i] = <<"hex", v>> /\ ToCe(p)[i] = <<"hex", v>>
  <2>1. ~p[i].wildcard /\ p[i].value = v
    BY <1>3 DEF Exactly
  <2>2. p[i] # Wildcard
    BY <2>1 DEF Wildcard
  <2>3. ToIda(p)[i] = <<"hex", p[i].value>> /\ ToCe(p)[i] = <<"hex", p[i].value>>
    BY <2>1, Zenon DEF ToIda, ToCe
  <2>4. QED
    BY <2>1, <2>2, <2>3
<1>4. QED
  <2>1. p[i] = Wildcard \/ \E v \in V : p[i] = Exactly(v)
    BY <1>1 DEF PatternBytes
  <2>2. QED
    BY <1>2, <1>3, <2>1

(* Tokens that stand for the bytes of a pattern are read as this pattern.  *)
Reads(t, x) ==
    \/ t[1] \in {"??", "?"} /\ x = Wildcard
    \/ t[1] = "hex" /\ x = Exactly(t[2])

LEMMA ParsedIs ==
    ASSUME NEW p, NEW tokens, tokens # << >>, DOMAIN tokens = DOMAIN p,
           p = [i \in DOMAIN p |-> p[i]], \A i \in DOMAIN p : Reads(tokens[i], p[i])
    PROVE  ParseIda(tokens) = {p}
<1> DEFINE q == [i \in DOMAIN tokens |->
                   IF tokens[i][1] = "hex" THEN Exactly(tokens[i][2]) ELSE Wildcard]
<1>1. \A t \in ToSet(tokens) : t[1] \in {"??", "?", "hex"}
  BY DEF ToSet, Reads
<1>2. ASSUME NEW i \in DOMAIN p PROVE q[i] = p[i]
  <2>1. q[i] = IF tokens[i][1] = "hex" THEN Exactly(tokens[i][2]) ELSE Wildcard
    BY Zenon
  <2> HIDE DEF q
  <2>2. CASE tokens[i][1] \in {"??", "?"} /\ p[i] = Wildcard
    BY <2>1, <2>2
  <2>3. CASE tokens[i][1] = "hex" /\ p[i] = Exactly(tokens[i][2])
    BY <2>1, <2>3
  <2>4. QED
    BY <2>2, <2>3 DEF Reads
<1>3. q = p
  <2>1. q = [i \in DOMAIN p |-> q[i]]
    OBVIOUS
  <2> HIDE DEF q
  <2>2. QED
    BY <1>2, <2>1
<1>4. ~(tokens = << >> \/ \E t \in ToSet(tokens) : t[1] \notin {"??", "?", "hex"})
  BY <1>1
<1>5. ParseIda(tokens) = {q}
  BY <1>4, Zenon DEF ParseIda
<1>6. QED
  BY <1>3, <1>5

LEMMA PatternsAreRead ==
    ASSUME NEW V, NEW p \in Seq(PatternBytes(V)), p # << >>
    PROVE  /\ ParseIda(ToIda(p)) = {p}
           /\ ParseIda(ToCe(p)) = IF Wildcard \in ToSet(p) THEN {} ELSE {p}
<1>1. /\ DOMAIN p = 1 .. Len(p) /\ Len(p) \in Nat /\ p = [i \in DOMAIN p |-> p[i]]
      /\ 1 \in DOMAIN p
  BY LenProperties, EmptySeq
<1> DEFINE a == ToIda(p)
           c == ToCe(p)
<1>2. DOMAIN a = DOMAIN p /\ DOMAIN c = DOMAIN p
  BY DEF ToIda, ToCe
<1>3. a # << >> /\ c # << >>
  BY <1>1, <1>2
<1>4. \A i \in DOMAIN p :
        \/ p[i] = Wildcard /\ a[i] = <<"??">> /\ c[i] = <<"*">>
        \/ \E v \in V : /\ p[i] = Exactly(v) /\ p[i] # Wildcard
                        /\ a[i] = <<"hex", v>> /\ c[i] = <<"hex", v>>
  BY TokensAre
<1> HIDE DEF a, c
<1>5. /\ <<"??">>[1] = "??" /\ <<"*">>[1] = "*"
      /\ \A v \in V : <<"hex", v>>[1] = "hex" /\ <<"hex", v>>[2] = v
  OBVIOUS
<1>6. \A i \in DOMAIN p : Reads(a[i], p[i])
  BY <1>4, <1>5 DEF Reads
<1>7. ParseIda(a) = {p}
  BY <1>1, <1>2, <1>3, <1>6, ParsedIs
<1>8. CASE Wildcard \in ToSet(p)
  <2>1. PICK i \in DOMAIN p : p[i] = Wildcard
    BY <1>8 DEF ToSet
  <2>2. c[i] = <<"*">>
    BY <1>4, <2>1
  <2>3. c[i] \in ToSet(c) /\ c[i][1] \notin {"??", "?", "hex"}
    BY <1>2, <1>5, <2>2 DEF ToSet
  <2>4. ParseIda(c) = {}
    BY <2>3 DEF ParseIda
  <2>5. QED
    BY <1>7, <1>8, <2>4 DEF a, c
<1>9. CASE Wildcard \notin ToSet(p)
  <2>1. \A i \in DOMAIN p : p[i] # Wildcard
    BY <1>9 DEF ToSet
  <2>2. \A i \in DOMAIN p : Reads(c[i], p[i])
    BY <1>4, <1>5, <2>1 DEF Reads
  <2>3. ParseIda(c) = {p}
    BY <1>1, <1>2, <1>3, <2>2, ParsedIs
  <2>4. QED
    BY <1>7, <1>9, <2>3 DEF a, c
<1>10. QED
  BY <1>8, <1>9

-----------------------------------------------------------------------------
(* The signatures of chunks.                                               *)

Exactlys(bytes) == [i \in 1 .. Len(bytes) |-> Exactly(bytes[i])]

LEMMA ExactlysAre ==
    ASSUME NEW V, NEW bytes \in Seq(V), bytes # << >>
    PROVE  /\ Exactlys(bytes) \in Seq(PatternBytes(V)) /\ Exactlys(bytes) # << >>
           /\ Len(Exactlys(bytes)) = Len(bytes) /\ DOMAIN Exactlys(bytes) = 1 .. Len(bytes)
           /\ \A i \in 1 .. Len(bytes) : Exactlys(bytes)[i].value = bytes[i]
<1>1. Len(bytes) \in Nat /\ 1 \in 1 .. Len(bytes)
  BY LenProperties, EmptySeq
<1>2. \A i \in 1 .. Len(bytes) : bytes[i] \in V
  BY ElementOfSeq
<1> DEFINE n == Len(bytes)
           e == Exactlys(bytes)
<1>3. e \in [1 .. n -> PatternBytes(V)] /\ DOMAIN e = 1 .. n
  BY <1>2 DEF Exactlys, PatternBytes
<1>4. \A i \in 1 .. n : e[i].value = bytes[i]
  BY DEF Exactlys, Exactly
<1> HIDE DEF n, e
<1>5. n \in Nat /\ 1 \in 1 .. n
  BY <1>1 DEF n
<1>6. e \in Seq(PatternBytes(V)) /\ Len(e) = n
  BY <1>3, <1>5, SeqDef, LenProperties
<1>7. e # << >>
  BY <1>5, <1>6, EmptySeq
<1>8. QED
  BY <1>3, <1>4, <1>6, <1>7 DEF n, e

LEMMA SignatureIs ==
    ASSUME NEW V, NEW old, NEW new, NEW chunks \in Seq(Chunks(V)), NEW c \in DOMAIN chunks,
           IsChunk(V, old, new, chunks[c])
    PROVE  GenerateSignatures(chunks)[c] =
              [offset |-> chunks[c].offset, old |-> Exactlys(chunks[c].old),
               new |-> Exactlys(chunks[c].new)]
<1> DEFINE k == chunks[c]
           Side(bytes) == [i \in DOMAIN k.old |->
                             IF k.old[i] = k.new[i] THEN Wildcard ELSE Exactly(bytes[i])]
<1>1. k \in Chunks(V) /\ DOMAIN k.old = 1 .. Len(k.old) /\ Len(k.new) = Len(k.old)
  BY LenProperties DEF IsChunk, Chunks
<1>2. GenerateSignatures(chunks)[c] =
         [offset |-> k.offset, old |-> Side(k.old), new |-> Side(k.new)]
  BY Zenon DEF GenerateSignatures
<1> HIDE DEF k
<1>3. \A i \in 1 .. Len(k.old) : k.old[i] # k.new[i]
  BY DEF IsChunk, k
<1>4. ASSUME NEW bytes, Len(bytes) = Len(k.old) PROVE Side(bytes) = Exactlys(bytes)
  BY <1>1, <1>3, <1>4 DEF Exactlys
<1>5. Side(k.old) = Exactlys(k.old) /\ Side(k.new) = Exactlys(k.new)
  BY <1>1, <1>4
<1> HIDE DEF Side
<1>6. QED
  BY <1>2, <1>5 DEF k

(* The pattern of some bytes is found where they are.                      *)
LEMMA FoundAtPlace ==
    ASSUME NEW V, NEW data \in Seq(V), NEW bytes \in Seq(V), bytes # << >>, NEW o \in Nat,
           o + Len(bytes) <= Len(data), \A j \in 1 .. Len(bytes) : bytes[j] = data[o + j]
    PROVE  o \in Scan(data, Exactlys(bytes))
<1> DEFINE p == Exactlys(bytes)
<1>1. /\ p # << >> /\ Len(p) = Len(bytes) /\ DOMAIN p = 1 .. Len(bytes)
      /\ \A j \in 1 .. Len(bytes) : p[j].value = bytes[j]
  BY ExactlysAre
<1> HIDE DEF p
<1>2. Len(bytes) \in Nat /\ Len(data) \in Nat
  BY LenProperties
<1>3. o \in 0 .. Len(data) - Len(p)
  BY <1>1, <1>2
<1>4. \A j \in DOMAIN p : data[o + j] = p[j].value
  BY <1>1
<1>5. o \in {i \in 0 .. Len(data) - Len(p) :
               \A j \in DOMAIN p : p[j].wildcard \/ data[i + j] = p[j].value}
  BY <1>3, <1>4
<1>6. QED
  BY <1>1, <1>5 DEF Scan, p

(* With a wildcard behind or before it, a pattern is a pattern.            *)
LEMMA WildcardsAround ==
    ASSUME NEW V, NEW p \in Seq(PatternBytes(V)), NEW q \in {p, Append(p, Wildcard), <<Wildcard>> \o p},
           p # << >>
    PROVE  q \in Seq(PatternBytes(V)) /\ q # << >>
<1>1. Wildcard \in PatternBytes(V) /\ Len(p) \in Nat
  BY LenProperties DEF PatternBytes
<1>2. CASE q = p
  BY <1>2
<1>3. CASE q = Append(p, Wildcard)
  <2>1. q \in Seq(PatternBytes(V)) /\ Len(q) = Len(p) + 1
    BY <1>1, <1>3, AppendProperties
  <2>2. QED
    BY <1>1, <2>1, EmptySeq
<1>4. CASE q = <<Wildcard>> \o p
  <2>1. <<Wildcard>> \in Seq(PatternBytes(V)) /\ Len(<<Wildcard>>) = 1
    BY <1>1
  <2>2. q \in Seq(PatternBytes(V)) /\ Len(q) = 1 + Len(p)
    BY <1>4, <2>1, ConcatProperties
  <2>3. QED
    BY <1>1, <2>2, EmptySeq
<1>5. QED
  BY <1>2, <1>3, <1>4

LEMMA SignaturesAreRight ==
    ASSUME NEW V, NEW old \in Seq(V), NEW new \in Seq(V), NEW chunks \in Seq(Chunks(V)),
           \A c \in 1 .. Len(chunks) : IsChunk(V, old, new, chunks[c])
    PROVE  SignaturesFind(old, new, chunks)
<1> DEFINE G == GenerateSignatures(chunks)
<1>1. DOMAIN G = DOMAIN chunks /\ DOMAIN chunks = 1 .. Len(chunks)
  BY LenProperties DEF GenerateSignatures
<1>2. ASSUME NEW s \in ToSet(G)
      PROVE  /\ s.offset \in Scan(old, s.old) /\ s.offset \in Scan(new, s.new)
             /\ \A p \in {s.old, s.new, Append(s.new, Wildcard), <<Wildcard>> \o s.old} :
                  /\ ParseIda(ToIda(p)) = {p}
                  /\ ParseIda(ToCe(p)) = IF Wildcard \in ToSet(p) THEN {} ELSE {p}
  <2>1. PICK c \in DOMAIN chunks : s = G[c]
    BY <1>1 DEF ToSet
  <2> DEFINE k == chunks[c]
  <2>2. IsChunk(V, old, new, k)
    BY <1>1
  <2>3. s = [offset |-> k.offset, old |-> Exactlys(k.old), new |-> Exactlys(k.new)]
    BY <2>1, <2>2, SignatureIs
  <2> HIDE DEF k
  <2>4. s.offset = k.offset /\ s.old = Exactlys(k.old) /\ s.new = Exactlys(k.new)
    BY <2>3
  <2>5. /\ k.offset \in Nat /\ k.old \in Seq(V) /\ k.new \in Seq(V)
        /\ Len(k.old) \in Nat \ {0} /\ Len(k.new) = Len(k.old)
        /\ k.offset + Len(k.old) <= Len(old) /\ k.offset + Len(k.new) <= Len(new)
        /\ \A j \in 1 .. Len(k.old) : k.old[j] = old[k.offset + j] /\ k.new[j] = new[k.offset + j]
    BY <2>2 DEF IsChunk, Chunks, EndOf
  <2>6. k.old # << >> /\ k.new # << >>
    BY <2>5, EmptySeq
  <2>7. k.offset \in Scan(old, Exactlys(k.old)) /\ k.offset \in Scan(new, Exactlys(k.new))
    BY <2>5, <2>6, FoundAtPlace
  <2>8. /\ Exactlys(k.old) \in Seq(PatternBytes(V)) /\ Exactlys(k.old) # << >>
        /\ Exactlys(k.new) \in Seq(PatternBytes(V)) /\ Exactlys(k.new) # << >>
    BY <2>5, <2>6, ExactlysAre
  <2>9. ASSUME NEW p \in {s.old, s.new, Append(s.new, Wildcard), <<Wildcard>> \o s.old}
        PROVE  p \in Seq(PatternBytes(V)) /\ p # << >>
    BY <2>4, <2>8, WildcardsAround
  <2>10. QED
    BY <2>4, <2>7, <2>9, PatternsAreRead
<1>3. QED
  BY <1>2 DEF SignaturesFind

-----------------------------------------------------------------------------
(* Sections and functions paired by name.                                  *)

LEMMA GreatestNumber ==
    ASSUME NEW N \in Nat, NEW T \in SUBSET (0 .. N), T # {}
    PROVE  Max(T) \in T /\ \A t \in T : Max(T) >= t
<1> DEFINE R == {N - t : t \in T}
<1>1. ASSUME NEW t \in T PROVE t \in Nat /\ N - t \in Nat /\ N - t \in R
  <2>1. t \in 0 .. N
    OBVIOUS
  <2>2. QED
    BY <2>1
<1>2. R \in SUBSET Nat /\ R # {}
  BY <1>1
<1>3. PICK r \in R : \A x \in R : r <= x
  <2> HIDE DEF R
  <2>1. QED
    BY <1>2, LeastNumber
<1>4. PICK m \in T : r = N - m
  BY <1>3
<1> HIDE DEF R
<1>5. ASSUME NEW t \in T PROVE m >= t
  <2>1. N - m <= N - t /\ t \in Nat /\ m \in Nat
    BY <1>1, <1>3, <1>4
  <2>2. QED
    BY <2>1
<1>6. \E x \in T : \A y \in T : x >= y
  BY <1>5
<1>7. QED
  BY <1>6 DEF Max

(* The set of some names of a list, in some order.                         *)
LEMMA SetInOrder ==
    ASSUME NEW S, IsFiniteSet(S)
    PROVE  /\ Cardinality(S) \in Nat /\ SetToSeq(S) \in [1 .. Cardinality(S) -> S]
           /\ \A i, j \in 1 .. Cardinality(S) : SetToSeq(S)[i] = SetToSeq(S)[j] => i = j
           /\ \A x \in S : \E i \in 1 .. Cardinality(S) : SetToSeq(S)[i] = x
<1> DEFINE C == Cardinality(S)
           q == SetToSeq(S)
<1>1. C \in Nat /\ ExistsBijection(1 .. C, S)
  BY FS_CardinalityType
<1>2. PICK f \in Bijection(1 .. C, S) : TRUE
  BY <1>1 DEF ExistsBijection
<1>3. f \in [1 .. C -> S] /\ IsInjective(f)
  BY <1>2 DEF Bijection, Injection
<1>4. q \in [1 .. C -> S] /\ IsInjective(q)
  BY <1>3 DEF SetToSeq
<1> HIDE DEF q
<1>5. q \in Injection(1 .. C, S)
  BY <1>4 DEF Injection
<1>6. Cardinality(1 .. C) = C
  BY <1>1, FS_Interval
<1>7. q \in Surjection(1 .. C, S)
  BY <1>5, <1>6, FS_Injection
<1>8. \A i, j \in 1 .. C : q[i] = q[j] => i = j
  BY <1>4 DEF IsInjective
<1>9. \A x \in S : \E i \in 1 .. C : q[i] = x
  BY <1>7 DEF Surjection
<1>10. QED
  BY <1>1, <1>4, <1>8, <1>9 DEF q

NamesOf(list) == {x.name : x \in ToSet(list)}

LEMMA NamesAreFinite ==
    ASSUME NEW R, NEW list \in Seq(R)
    PROVE  /\ IsFiniteSet(NamesOf(list)) /\ DOMAIN list = 1 .. Len(list) /\ Len(list) \in Nat
           /\ NamesOf(list) = {list[k].name : k \in DOMAIN list}
<1>1. DOMAIN list = 1 .. Len(list) /\ Len(list) \in Nat
  BY LenProperties
<1>2. NamesOf(list) = {list[k].name : k \in DOMAIN list}
  BY DEF NamesOf, ToSet
<1> DEFINE f == [k \in 1 .. Len(list) |-> list[k].name]
<1>3. f \in Surjection(1 .. Len(list), NamesOf(list))
  BY <1>1, <1>2 DEF Surjection
<1>4. IsFiniteSet(1 .. Len(list))
  BY <1>1, FS_Interval
<1> HIDE DEF f
<1>5. IsFiniteSet(NamesOf(list))
  BY <1>3, <1>4, FS_Surjection
<1>6. QED
  BY <1>1, <1>2, <1>5

(* The partner of an old one: a new one of its name, and none behind an    *)
(* old one of this name.                                                   *)
LEMMA PairIs ==
    ASSUME NEW R, NEW olds \in Seq(R), NEW news \in Seq(R), NEW k \in DOMAIN olds
    PROVE  /\ Pair(olds, news, k) = 0 \/ Pair(olds, news, k) \in DOMAIN news
           /\ Pair(olds, news, k) # 0 => news[Pair(olds, news, k)].name = olds[k].name
           /\ Pair(olds, news, k) # 0 <=>
                /\ \A j \in 1 .. k - 1 : olds[j].name # olds[k].name
                /\ olds[k].name \in NamesOf(news)
<1> DEFINE M == {n \in DOMAIN news : news[n].name = olds[k].name}
           T == {0} \cup M
<1>1. /\ DOMAIN news = 1 .. Len(news) /\ Len(news) \in Nat
      /\ NamesOf(news) = {news[n].name : n \in DOMAIN news}
  BY NamesAreFinite
<1>2. 0 \notin M /\ (M # {} <=> olds[k].name \in NamesOf(news))
  BY <1>1
<1>3. T \in SUBSET (0 .. Len(news)) /\ T # {}
  BY <1>1
<1>4. Max(T) \in T /\ \A y \in T : Max(T) >= y
  <2> HIDE DEF T
  <2>1. QED
    BY <1>1, <1>3, GreatestNumber
<1>5. M # {} => Max(T) # 0
  <2> SUFFICES ASSUME NEW n \in M, Max(T) = 0 PROVE FALSE
    OBVIOUS
  <2>1. n \in T /\ n \in DOMAIN news
    OBVIOUS
  <2>2. n >= 1 /\ 0 >= n /\ n \in Nat
    BY <1>1, <1>4, <2>1
  <2>3. QED
    BY <2>2
<1>6. Max(T) # 0 => Max(T) \in M
  BY <1>4
<1>7. CASE \E j \in 1 .. k - 1 : olds[j].name = olds[k].name
  <2>1. Pair(olds, news, k) = 0
    BY <1>7 DEF Pair
  <2>2. QED
    BY <1>7, <2>1
<1>8. CASE ~ \E j \in 1 .. k - 1 : olds[j].name = olds[k].name
  <2>1. Pair(olds, news, k) = Max(T)
    BY <1>8 DEF Pair
  <2> DEFINE x == Max(T)
  <2>2. x \in T /\ (x # 0 => x \in M) /\ (M # {} => x # 0)
    BY <1>4, <1>5, <1>6
  <2> HIDE DEF x
  <2>3. /\ x = 0 \/ x \in DOMAIN news
        /\ x # 0 => news[x].name = olds[k].name
        /\ x # 0 <=> M # {}
    BY <2>2
  <2>4. Pair(olds, news, k) = x
    BY <2>1 DEF x
  <2> HIDE DEF M
  <2>5. QED
    BY <1>2, <1>8, <2>3, <2>4
<1>9. QED
  BY <1>7, <1>8

(* The old ones with what became of them, and behind them the names that   *)
(* are new.                                                                *)
Statuses == {"Unchanged", "Modified", "Removed", "Added"}
StatusOf(olds, news, k) ==
    LET n == Pair(olds, news, k)
    IN  IF n = 0 THEN "Removed"
        ELSE IF olds[k].data = news[n].data THEN "Unchanged" ELSE "Modified"

ListsDiffs(olds, news, diffs) ==
    LET K == Len(olds)
        C == Cardinality(Added(olds, news))
        q == SetToSeq(Added(olds, news))
    IN  /\ DOMAIN diffs = 1 .. K + C
        /\ \A k \in 1 .. K : diffs[k].name = olds[k].name
        /\ \A j \in 1 .. C : diffs[K + j].name = q[j] /\ diffs[K + j].status = "Added"

LEMMA AddedNames ==
    ASSUME NEW R, NEW olds \in Seq(R), NEW news \in Seq(R)
    PROVE  /\ IsFiniteSet(Added(olds, news)) /\ Cardinality(Added(olds, news)) \in Nat
           /\ Added(olds, news) = NamesOf(news) \ NamesOf(olds)
<1>1. Added(olds, news) = NamesOf(news) \ NamesOf(olds)
  BY DEF Added, NamesOf
<1>2. Added(olds, news) \in SUBSET NamesOf(news) /\ IsFiniteSet(NamesOf(news))
  BY <1>1, NamesAreFinite
<1>3. IsFiniteSet(Added(olds, news))
  BY <1>2, FS_Subset
<1>4. QED
  BY <1>1, <1>3, FS_CardinalityType

Joined(S, r, s, t) ==
    /\ r \in Seq(S) /\ Len(r) = Len(s) + Len(t)
    /\ \A i \in 1 .. Len(s) + Len(t) : r[i] = IF i <= Len(s) THEN s[i] ELSE t[i - Len(s)]

LEMMA ConcatIs ==
    ASSUME NEW S, NEW s \in Seq(S), NEW t \in Seq(S), NEW r, r = s \o t
    PROVE  Joined(S, r, s, t)
BY ConcatProperties DEF Joined

(* What became of the old ones, and the names that are new.                *)
AddedTo(first, olds, news) == first \o AddedInSomeOrder(olds, news)

NamedIn(R, E) == \A x \in R : x.name \in E
Named(olds, first) == \A k \in DOMAIN olds : first[k].name = olds[k].name
Begins(olds, first, diffs) == \A k \in DOMAIN olds : diffs[k] = first[k]

LEMMA WithAdded ==
    ASSUME NEW R, NEW olds \in Seq(R), NEW news \in Seq(R), NEW E,
           NEW first, first \in [DOMAIN olds -> [name : E, status : Statuses]],
           NamedIn(R, E), Named(olds, first), NEW diffs, diffs = AddedTo(first, olds, news)
    PROVE  ListsDiffs(olds, news, diffs) /\ Begins(olds, first, diffs)
<1> DEFINE K == Len(olds)
           S == Added(olds, news)
           C == Cardinality(S)
           q == SetToSeq(S)
           a == AddedInSomeOrder(olds, news)
           D == [name : E, status : Statuses]
<1>1. K \in Nat /\ DOMAIN olds = 1 .. K /\ IsFiniteSet(S) /\ C \in Nat
  BY AddedNames, LenProperties
<1>2. q \in [1 .. C -> S]
  BY <1>1, SetInOrder
<1>3. a = [k \in 1 .. C |-> [name |-> q[k], status |-> "Added"]]
  BY DEF AddedInSomeOrder
<1>4. \A x \in S : x \in E
  <2>1. S \subseteq NamesOf(news)
    BY AddedNames
  <2>2. \A n \in DOMAIN news : news[n] \in R
    BY LenProperties, ElementOfSeq
  <2>3. \A x \in NamesOf(news) : x \in E
    BY <2>2 DEF NamesOf, ToSet, NamedIn
  <2>4. QED
    BY <2>1, <2>3
<1> HIDE DEF a, q, C, S, K
<1>5. a \in [1 .. C -> D]
  BY <1>2, <1>3, <1>4 DEF Statuses
<1>6. first \in Seq(D) /\ Len(first) = K /\ a \in Seq(D) /\ Len(a) = C
  <2> HIDE DEF D
  <2>1. first \in [1 .. K -> D]
    BY <1>1 DEF D
  <2>2. QED
    BY <1>1, <1>5, <2>1, SeqDef, LenProperties
<1> HIDE DEF D
<1>7. /\ diffs \in Seq(D) /\ Len(diffs) = K + C
      /\ \A i \in 1 .. K + C : diffs[i] = IF i <= K THEN first[i] ELSE a[i - K]
  <2>1. diffs = first \o a
    BY DEF a, AddedTo
  <2>2. /\ diffs \in Seq(D) /\ Len(diffs) = Len(first) + Len(a)
        /\ \A i \in 1 .. Len(first) + Len(a) :
              diffs[i] = IF i <= Len(first) THEN first[i] ELSE a[i - Len(first)]
    <3>1. Joined(D, diffs, first, a)
      BY <1>6, <2>1, ConcatIs
    <3>2. QED
      BY <3>1 DEF Joined
  <2>3. QED
    BY <1>6, <2>2
<1>8. \A k \in 1 .. K : k \in 1 .. K + C /\ k <= K
  BY <1>1
<1>9. \A j \in 1 .. C : K + j \in 1 .. K + C /\ ~(K + j <= K) /\ (K + j) - K = j
  BY <1>1
<1>10. \A k \in 1 .. K : diffs[k] = first[k]
  BY <1>7, <1>8
<1>11. ASSUME NEW j \in 1 .. C PROVE diffs[K + j].name = q[j] /\ diffs[K + j].status = "Added"
  <2>1. diffs[K + j] = a[j]
    BY <1>7, <1>9
  <2>2. a[j] = [name |-> q[j], status |-> "Added"]
    BY <1>3
  <2>3. QED
    BY <2>1, <2>2
<1>12. DOMAIN diffs = 1 .. K + C
  BY <1>7, LenProperties
<1>13. ListsDiffs(olds, news, diffs)
  BY <1>1, <1>10, <1>11, <1>12 DEF ListsDiffs, K, C, q, S, Named
<1>14. Begins(olds, first, diffs)
  BY <1>1, <1>10 DEF Begins
<1>15. QED
  BY <1>13, <1>14

LEMMA SectionDiffIs ==
    ASSUME NEW R, NEW olds \in Seq(R), NEW news \in Seq(R)
    PROVE  /\ ListsDiffs(olds, news, SectionDiff(olds, news))
           /\ \A k \in DOMAIN olds :
                 SectionDiff(olds, news)[k].status = StatusOf(olds, news, k)
<1> DEFINE E == {x.name : x \in R}
           first == [k \in DOMAIN olds |->
                       [name |-> olds[k].name, status |-> StatusOf(olds, news, k)]]
           diffs == SectionDiff(olds, news)
<1>1. DOMAIN olds = 1 .. Len(olds) /\ \A k \in DOMAIN olds : olds[k] \in R
  BY LenProperties, ElementOfSeq
<1>2. \A k \in DOMAIN olds : StatusOf(olds, news, k) \in Statuses
  BY DEF StatusOf, Statuses
<1>3. first \in [DOMAIN olds -> [name : E, status : Statuses]]
  BY <1>1, <1>2
<1>4. diffs = AddedTo(first, olds, news)
  <2>1. ASSUME NEW k \in DOMAIN olds
        PROVE  first[k] = LET n == Pair(olds, news, k)
                              is(status) == [name |-> olds[k].name, status |-> status]
                          IN  IF n = 0 THEN is("Removed")
                              ELSE IF olds[k].data = news[n].data THEN is("Unchanged")
                              ELSE is("Modified")
    BY DEF StatusOf
  <2>2. first = [k \in DOMAIN olds |->
                   LET n == Pair(olds, news, k)
                       is(status) == [name |-> olds[k].name, status |-> status]
                   IN  IF n = 0 THEN is("Removed")
                       ELSE IF olds[k].data = news[n].data THEN is("Unchanged")
                       ELSE is("Modified")]
    <3>1. first = [k \in DOMAIN olds |-> first[k]]
      OBVIOUS
    <3> HIDE DEF first
    <3>2. QED
      BY <2>1, <3>1
  <2> HIDE DEF first
  <2>3. QED
    BY <2>2 DEF SectionDiff, AddedTo
<1>5. \A k \in DOMAIN olds : first[k].name = olds[k].name /\ first[k].status = StatusOf(olds, news, k)
  OBVIOUS
<1>6. NamedIn(R, E) /\ Named(olds, first)
  BY DEF NamedIn, Named
<1> HIDE DEF first, diffs, E
<1>7. ListsDiffs(olds, news, diffs) /\ Begins(olds, first, diffs)
  BY <1>3, <1>4, <1>6, WithAdded
<1>8. QED
  BY <1>5, <1>7 DEF diffs, Begins

LEMMA FunctionDiffIs ==
    ASSUME NEW R, NEW olds \in Seq(R), NEW news \in Seq(R), NEW fd \in FunctionDiffs(olds, news)
    PROVE  /\ ListsDiffs(olds, news, fd)
           /\ \A k \in DOMAIN olds : fd[k].status = "Removed" <=> Pair(olds, news, k) = 0
           /\ \A k \in DOMAIN olds : fd[k].status # "Added"
<1> DEFINE E == {x.name : x \in R}
<1>1. PICK s \in [DOMAIN olds -> [name : {f.name : f \in ToSet(olds)},
                                  status : {"Removed", "Unchanged", "Modified"}]] :
         /\ fd = AddedTo(s, olds, news)
         /\ \A k \in DOMAIN olds : /\ s[k].name = olds[k].name
                                   /\ s[k].status = "Removed" <=> Pair(olds, news, k) = 0
  BY DEF FunctionDiffs, AddedTo
<1>2. DOMAIN olds = 1 .. Len(olds) /\ \A k \in DOMAIN olds : olds[k] \in R
  BY LenProperties, ElementOfSeq
<1>3. {f.name : f \in ToSet(olds)} \subseteq E
  BY <1>2 DEF ToSet
<1>4. s \in [DOMAIN olds -> [name : E, status : Statuses]]
  BY <1>3 DEF Statuses
<1>5. NamedIn(R, E) /\ Named(olds, s)
  BY <1>1 DEF NamedIn, Named
<1>6. \A k \in DOMAIN olds : s[k].status # "Added"
  OBVIOUS
<1> HIDE DEF E
<1>7. ListsDiffs(olds, news, fd) /\ Begins(olds, s, fd)
  BY <1>1, <1>4, <1>5, WithAdded
<1>8. QED
  BY <1>1, <1>6, <1>7 DEF Begins

(* How often a name is there with one of some statuses.                    *)
Of(diffs, x, status) == {k \in DOMAIN diffs : diffs[k].name = x /\ diffs[k].status \in status}
Copies(list, x) == {k \in DOMAIN list : list[k].name = x}

(* Where an entry is: of an old one, or of a name that is new.             *)
LEMMA DiffPlaces ==
    ASSUME NEW R, NEW olds \in Seq(R), NEW news \in Seq(R), NEW diffs,
           ListsDiffs(olds, news, diffs), NEW k \in DOMAIN diffs
    PROVE  \/ k \in DOMAIN olds /\ diffs[k].name = olds[k].name
           \/ /\ \E j \in 1 .. Cardinality(Added(olds, news)) :
                    k = Len(olds) + j /\ diffs[k].name = SetToSeq(Added(olds, news))[j]
              /\ diffs[k].status = "Added" /\ diffs[k].name \in Added(olds, news)
<1> DEFINE K == Len(olds)
           S == Added(olds, news)
           C == Cardinality(S)
           q == SetToSeq(S)
<1>1. K \in Nat /\ DOMAIN olds = 1 .. K /\ IsFiniteSet(S) /\ C \in Nat
  BY AddedNames, LenProperties
<1>2. q \in [1 .. C -> S]
  BY <1>1, SetInOrder
<1>3. k \in 1 .. K + C
  BY DEF ListsDiffs
<1>4. CASE k \in 1 .. K
  BY <1>1, <1>4 DEF ListsDiffs
<1>5. CASE k \notin 1 .. K
  <2> HIDE DEF K, C
  <2>1. k - K \in 1 .. C /\ k = K + (k - K)
    BY <1>1, <1>3, <1>5
  <2> DEFINE j == k - K
  <2>2. diffs[K + j].name = q[j] /\ diffs[K + j].status = "Added"
    BY <2>1 DEF ListsDiffs, K, C
  <2>3. q[j] \in S
    BY <1>2, <2>1
  <2> HIDE DEF j
  <2>4. j \in 1 .. C /\ k = K + j
    BY <2>1 DEF j
  <2>5. QED
    BY <2>2, <2>3, <2>4 DEF K, C
<1>6. QED
  BY <1>4, <1>5

LEMMA FirstOfName ==
    ASSUME NEW R, NEW olds \in Seq(R), NEW x \in NamesOf(olds)
    PROVE  \E k \in DOMAIN olds : /\ olds[k].name = x
                                  /\ \A j \in DOMAIN olds : olds[j].name = x => k <= j
<1>1. DOMAIN olds = 1 .. Len(olds) /\ NamesOf(olds) = {olds[k].name : k \in DOMAIN olds}
  BY NamesAreFinite
<1>2. Copies(olds, x) # {} /\ Copies(olds, x) \in SUBSET Nat
  BY <1>1 DEF Copies
<1>3. PICK k \in Copies(olds, x) : \A j \in Copies(olds, x) : k <= j
  BY <1>2, LeastNumber
<1>4. QED
  BY <1>3 DEF Copies

(* The entries of a name that are paired or added: one, if it is there.    *)
Once(diffs, x, news) ==
    LET X == Of(diffs, x, {"Unchanged", "Modified", "Added"})
    IN  IF x \in NamesOf(news) THEN \E k : X = {k} ELSE X = {}

(* Each new name has one partner, or is added once.                        *)
LEMMA PairedOnce ==
    ASSUME NEW R, NEW olds \in Seq(R), NEW news \in Seq(R), NEW diffs,
           diffs = SectionDiff(olds, news), NEW x
    PROVE  Once(diffs, x, news)
<1> DEFINE U == {"Unchanged", "Modified", "Added"}
           K == Len(olds)
           S == Added(olds, news)
           C == Cardinality(S)
           q == SetToSeq(S)
<1>1. K \in Nat /\ DOMAIN olds = 1 .. K /\ IsFiniteSet(S) /\ C \in Nat
  BY AddedNames, LenProperties
<1>2. /\ q \in [1 .. C -> S] /\ \A i, j \in 1 .. C : q[i] = q[j] => i = j
      /\ \A y \in S : \E i \in 1 .. C : q[i] = y
  BY <1>1, SetInOrder
<1>3. ListsDiffs(olds, news, diffs) /\ \A k \in DOMAIN olds : diffs[k].status = StatusOf(olds, news, k)
  BY SectionDiffIs
<1>4. S = NamesOf(news) \ NamesOf(olds) /\ NamesOf(olds) = {olds[k].name : k \in DOMAIN olds}
  BY AddedNames, NamesAreFinite
<1>5. \A k \in DOMAIN olds : StatusOf(olds, news, k) \in U <=> Pair(olds, news, k) # 0
  BY DEF StatusOf
<1>6. ASSUME NEW k \in DOMAIN olds
      PROVE  k \in Of(diffs, x, U) <=> olds[k].name = x /\ Pair(olds, news, k) # 0
  <2>1. k \in DOMAIN diffs /\ diffs[k].name = olds[k].name
    BY <1>1, <1>3 DEF ListsDiffs
  <2>2. diffs[k].status = StatusOf(olds, news, k)
    BY <1>3
  <2>3. QED
    BY <1>5, <2>1, <2>2 DEF Of
<1>7. ASSUME NEW j \in 1 .. C PROVE K + j \in Of(diffs, x, U) <=> q[j] = x
  <2>1. K + j \in DOMAIN diffs /\ diffs[K + j].name = q[j] /\ diffs[K + j].status = "Added"
    BY <1>1, <1>3 DEF ListsDiffs
  <2>2. QED
    BY <2>1 DEF Of
<1>8. ASSUME NEW k \in Of(diffs, x, U)
      PROVE  \/ k \in DOMAIN olds /\ olds[k].name = x /\ Pair(olds, news, k) # 0
             \/ x \in S /\ \E j \in 1 .. C : k = K + j /\ q[j] = x
  <2>1. k \in DOMAIN diffs /\ diffs[k].name = x
    BY DEF Of
  <2>2. CASE k \in DOMAIN olds
    BY <1>6, <2>2
  <2>3. CASE k \notin DOMAIN olds
    BY <1>3, <2>1, <2>3, DiffPlaces
  <2>4. QED
    BY <2>2, <2>3
<1>9. CASE x \notin NamesOf(news)
  <2>1. Of(diffs, x, U) = {}
    BY <1>4, <1>8, <1>9, PairIs
  <2>2. QED
    BY <1>9, <2>1 DEF Once
<1>10. CASE x \in S
  <2>1. PICK j \in 1 .. C : q[j] = x
    BY <1>2, <1>10
  <2>2. ASSUME NEW k \in Of(diffs, x, U) PROVE k = K + j
    BY <1>2, <1>4, <1>8, <1>10, <2>1
  <2>3. K + j \in Of(diffs, x, U)
    BY <1>7, <2>1
  <2>4. Of(diffs, x, U) = {K + j}
    BY <2>2, <2>3
  <2>5. QED
    BY <1>4, <1>10, <2>4 DEF Once
<1>11. CASE x \in NamesOf(news) /\ x \in NamesOf(olds)
  <2>1. PICK k \in DOMAIN olds : /\ olds[k].name = x
                                 /\ \A j \in DOMAIN olds : olds[j].name = x => k <= j
    BY <1>11, FirstOfName
  <2>2. \A j \in 1 .. k - 1 : j \in DOMAIN olds /\ olds[j].name # x
    <3>1. ASSUME NEW j \in 1 .. k - 1 PROVE j \in DOMAIN olds /\ ~(k <= j)
      BY <1>1
    <3>2. QED
      BY <2>1, <3>1
  <2>3. Pair(olds, news, k) # 0
    BY <1>11, <2>1, <2>2, PairIs
  <2>4. k \in Of(diffs, x, U)
    BY <1>6, <2>1, <2>3
  <2>5. ASSUME NEW l \in Of(diffs, x, U) PROVE l = k
    <3>1. l \in DOMAIN olds /\ olds[l].name = x /\ Pair(olds, news, l) # 0
      BY <1>4, <1>8, <1>11
    <3>2. k <= l
      BY <2>1, <3>1
    <3>3. \A j \in 1 .. l - 1 : olds[j].name # olds[l].name
      BY <3>1, PairIs
    <3>4. k \notin 1 .. l - 1
      BY <2>1, <3>1, <3>3
    <3>5. QED
      BY <1>1, <3>1, <3>2, <3>4
  <2>6. Of(diffs, x, U) = {k}
    BY <2>4, <2>5
  <2>7. QED
    BY <1>11, <2>6 DEF Once
<1>12. QED
  BY <1>4, <1>9, <1>10, <1>11

LEMMA OneIsThere ==
    ASSUME NEW S, Cardinality(S) = 1
    PROVE  S # {}
<1>1. Cardinality({}) = 0
  BY FS_EmptySet
<1>2. QED
  BY <1>1

LEMMA SectionsPaired ==
    ASSUME NEW R, NEW A, NEW B, R = [name : A, data : B], NEW olds \in Seq(R), NEW news \in Seq(R)
    PROVE  SectionsArePaired(olds, news)
<1> DEFINE diffs == SectionDiff(olds, news)
           Times(x, status) == Cardinality({k \in DOMAIN diffs :
                                              diffs[k].name = x /\ diffs[k].status \in status})
           Occurs(list, x) == Cardinality({k \in DOMAIN list : list[k].name = x})
<1>1. ListsDiffs(olds, news, diffs) /\ \A k \in DOMAIN olds : diffs[k].status = StatusOf(olds, news, k)
  BY SectionDiffIs
<1>2. /\ DOMAIN olds = 1 .. Len(olds) /\ \A k \in DOMAIN olds : olds[k] \in R
      /\ DOMAIN news = 1 .. Len(news) /\ \A k \in DOMAIN news : news[k] \in R
      /\ Len(olds) \in Nat /\ Len(news) \in Nat
  BY LenProperties, ElementOfSeq
<1>3. \A k \in DOMAIN olds : k \in DOMAIN diffs
  <2>1. Cardinality(Added(olds, news)) \in Nat
    BY AddedNames
  <2>2. QED
    BY <1>1, <1>2, <2>1 DEF ListsDiffs
<1> HIDE DEF diffs
<1>4. ASSUME NEW x
      PROVE  Times(x, {"Unchanged", "Modified", "Added"}) = Min({1, Occurs(news, x)})
  <2> DEFINE X == Of(diffs, x, {"Unchanged", "Modified", "Added"})
             Y == Copies(news, x)
  <2>1. IsFiniteSet(Y) /\ Cardinality(Y) \in Nat /\ (Cardinality(Y) = 0 <=> Y = {})
    <3>1. Y \in SUBSET (1 .. Len(news)) /\ IsFiniteSet(1 .. Len(news))
      BY <1>2, FS_Interval DEF Copies
    <3>2. QED
      BY <3>1, FS_Subset, FS_CardinalityType, FS_EmptySet
  <2>2. IF Y # {} THEN \E k : X = {k} ELSE X = {}
    <3>1. x \in NamesOf(news) <=> Y # {}
      BY NamesAreFinite DEF Copies
    <3>2. diffs = SectionDiff(olds, news)
      BY DEF diffs
    <3>3. Once(diffs, x, news)
      BY <3>2, PairedOnce
    <3>4. QED
      BY <3>1, <3>3 DEF Once
  <2>3. Cardinality(X) = IF Y # {} THEN 1 ELSE 0
    BY <2>2, FS_Singleton, FS_EmptySet
  <2>4. \A n \in Nat : Min({1, n}) = IF n = 0 THEN 0 ELSE 1
    BY DEF Min
  <2>5. Cardinality(X) = Min({1, Cardinality(Y)})
    BY <2>1, <2>3, <2>4
  <2>6. QED
    BY <2>5 DEF Of, Copies
<1>5. ASSUME NEW x
      PROVE  Times(x, {"Unchanged", "Modified", "Removed"}) = Occurs(olds, x)
  <2>1. ASSUME NEW k \in DOMAIN diffs
        PROVE  /\ diffs[k].name = x /\ diffs[k].status \in {"Unchanged", "Modified", "Removed"}
                  => k \in Copies(olds, x)
    BY <1>1, DiffPlaces DEF Copies
  <2>2. ASSUME NEW k \in Copies(olds, x)
        PROVE  /\ k \in DOMAIN diffs /\ diffs[k].name = x
               /\ diffs[k].status \in {"Unchanged", "Modified", "Removed"}
    <3>1. k \in DOMAIN olds /\ olds[k].name = x
      BY DEF Copies
    <3>2. diffs[k].name = olds[k].name
      BY <1>1, <1>2, <3>1 DEF ListsDiffs
    <3>3. diffs[k].status = StatusOf(olds, news, k)
      BY <1>1, <3>1
    <3>4. QED
      BY <1>3, <3>1, <3>2, <3>3 DEF StatusOf
  <2>3. Of(diffs, x, {"Unchanged", "Modified", "Removed"}) = Copies(olds, x)
    BY <2>1, <2>2 DEF Of
  <2>4. QED
    BY <2>3 DEF Of, Copies
<1>6. ASSUME NEW x, Times(x, {"Unchanged"}) = 1
      PROVE  \E s \in ToSet(olds), t \in ToSet(news) : s.name = x /\ t = s
  <2>1. Of(diffs, x, {"Unchanged"}) # {}
    <3>1. Cardinality(Of(diffs, x, {"Unchanged"})) = 1
      BY <1>6 DEF Of
    <3>2. QED
      BY <3>1, OneIsThere
  <2>2. PICK k \in DOMAIN diffs : diffs[k].name = x /\ diffs[k].status = "Unchanged"
    BY <2>1 DEF Of
  <2>3. k \in DOMAIN olds /\ olds[k].name = x
    BY <1>1, <2>2, DiffPlaces
  <2>4. StatusOf(olds, news, k) = "Unchanged"
    BY <1>1, <2>2, <2>3
  <2> DEFINE n == Pair(olds, news, k)
  <2>5. n # 0 /\ olds[k].data = news[n].data
    BY <2>4 DEF StatusOf
  <2>6. n \in DOMAIN news /\ news[n].name = olds[k].name
    BY <2>3, <2>5, PairIs
  <2> HIDE DEF n
  <2>7. olds[k] \in R /\ news[n] \in R
    BY <1>2, <2>3, <2>6
  <2>8. news[n] = olds[k]
    BY <2>5, <2>6, <2>7
  <2>9. olds[k] \in ToSet(olds) /\ news[n] \in ToSet(news)
    BY <2>3, <2>6 DEF ToSet
  <2>10. QED
    BY <2>3, <2>8, <2>9
<1>7. ASSUME NEW fd \in FunctionDiffs(olds, news), NEW k \in DOMAIN diffs
      PROVE  /\ diffs[k].name = fd[k].name
             /\ diffs[k].status \in {"Added", "Removed"} => diffs[k].status = fd[k].status
  <2>1. /\ ListsDiffs(olds, news, fd)
        /\ \A l \in DOMAIN olds : fd[l].status = "Removed" <=> Pair(olds, news, l) = 0
    BY FunctionDiffIs
  <2>2. CASE k \in DOMAIN olds
    <3>1. diffs[k].name = olds[k].name /\ fd[k].name = olds[k].name
      BY <1>1, <1>2, <2>1, <2>2 DEF ListsDiffs
    <3>2. diffs[k].status = StatusOf(olds, news, k)
      BY <1>1, <2>2
    <3>3. QED
      BY <2>1, <2>2, <3>1, <3>2 DEF StatusOf
  <2>3. CASE k \notin DOMAIN olds
    <3>1. PICK j \in 1 .. Cardinality(Added(olds, news)) :
             k = Len(olds) + j /\ diffs[k].name = SetToSeq(Added(olds, news))[j]
      BY <1>1, <2>3, DiffPlaces
    <3>2. diffs[k].status = "Added"
      BY <1>1, <2>3, DiffPlaces
    <3>3. fd[k].name = SetToSeq(Added(olds, news))[j] /\ fd[k].status = "Added"
      BY <2>1, <3>1 DEF ListsDiffs
    <3>4. QED
      BY <3>1, <3>2, <3>3
  <2>4. QED
    BY <2>2, <2>3
<1>8. QED
  <2> HIDE DEF Times, Occurs
  <2>1. SUFFICES ASSUME NEW x PROVE
          /\ Times(x, {"Unchanged", "Modified", "Added"}) = Min({1, Occurs(news, x)})
          /\ Times(x, {"Unchanged", "Modified", "Removed"}) = Occurs(olds, x)
          /\ Times(x, {"Unchanged"}) = 1 =>
               \E s \in ToSet(olds), t \in ToSet(news) : s.name = x /\ t = s
          /\ \A fd \in FunctionDiffs(olds, news) :
               \A k \in DOMAIN diffs : diffs[k].name = fd[k].name /\
                  (diffs[k].status \in {"Added", "Removed"} => diffs[k].status = fd[k].status)
    BY DEF SectionsArePaired, Times, Occurs, diffs
  <2>2. QED
    BY <1>4, <1>5, <1>6, <1>7


-----------------------------------------------------------------------------
(* What the property says of the diff.                                     *)

Sorted(s) == \A k \in 1 .. Len(s) : k > 1 => s[k - 1] < s[k]

LEMMA SortedAppend ==
    ASSUME NEW T \in SUBSET Nat, NEW s \in Seq(T), Sorted(s), NEW m \in Nat, \A i \in T : i < m
    PROVE  Sorted(Append(s, m))
<1> DEFINE B == Append(s, m)
           L == Len(s)
<1>1. L \in Nat /\ s \in Seq(Nat) /\ \A k \in 1 .. L : s[k] \in T
  <2>1. L \in Nat
    BY LenProperties
  <2>2. s \in Seq(Nat)
    <3>1. s \in [1 .. L -> T]
      BY LenProperties
    <3>2. s \in [1 .. L -> Nat]
      BY <3>1
    <3>3. QED
      BY <2>1, <3>2
  <2>3. \A k \in 1 .. L : s[k] \in T
    BY ElementOfSeq
  <2>4. QED
    BY <2>1, <2>2, <2>3
<1>2. /\ Len(B) = L + 1 /\ B[L + 1] = m
      /\ \A k \in 1 .. L : B[k] = s[k]
  BY <1>1, AppendProperties
<1> HIDE DEF B, L
<1>3. ASSUME NEW k \in 1 .. Len(B), k > 1 PROVE B[k - 1] < B[k]
  <2>1. CASE k = L + 1
    <3>1. k - 1 \in 1 .. L
      BY <1>1, <1>2, <1>3, <2>1
    <3>2. B[k - 1] \in T
      BY <1>1, <1>2, <3>1
    <3>3. QED
      BY <1>2, <2>1, <3>2
  <2>2. CASE k # L + 1
    <3>1. k - 1 \in 1 .. L /\ k \in 1 .. L
      BY <1>1, <1>2, <1>3, <2>2
    <3>2. s[k - 1] < s[k]
      BY <1>3, <3>1 DEF Sorted, L
    <3>3. QED
      BY <1>2, <3>1, <3>2
  <2>3. QED
    BY <2>1, <2>2
<1>4. Sorted(B)
  BY <1>3 DEF Sorted
<1>5. QED
  BY <1>4 DEF B

LEMMA AscendingSorted ==
    ASSUME NEW N \in Nat, NEW S \in SUBSET (0 .. N - 1)
    PROVE  Sorted(Ascending(S))
<1> DEFINE T(n) == {i \in S : i < n}
           P == {n \in 0 .. N : Sorted(Ascending(T(n)))}
<1>0. \A i \in S : i \in Nat /\ 0 <= i /\ i < N
  OBVIOUS
<1>1. \A n \in 0 .. N : /\ T(n) \in SUBSET (0 .. N - 1) /\ T(n) \in SUBSET Nat
                        /\ IsFiniteSet(T(n)) /\ Ascending(T(n)) \in Seq(T(n))
  <2>1. \A n \in 0 .. N : T(n) \in SUBSET (0 .. N - 1) /\ T(n) \in SUBSET Nat
    BY <1>0
  <2> HIDE DEF T
  <2>2. QED
    BY <2>1, AscendingLists
<1>2. 0 \in P
  <2>1. T(0) = {}
    <3>1. \A i \in S : ~(i < 0)
      BY <1>0
    <3>2. QED
      BY <3>1, Zenon
  <2>2. Sorted(<< >>)
    BY DEF Sorted
  <2>3. 0 \in 0 .. N
    OBVIOUS
  <2> HIDE DEF T
  <2>4. QED
    BY <2>1, <2>2, <2>3, AscendingEmpty
<1>3. ASSUME NEW n \in 1 .. N, n - 1 \in P PROVE n \in P
  <2> DEFINE m == n - 1
  <2>1. m \in 0 .. N /\ m \in Nat /\ n \in 0 .. N
    OBVIOUS
  <2>2. Sorted(Ascending(T(m)))
    BY <1>3
  <2>3. CASE m \in S
    <3>1. T(n) = T(m) \cup {m}
      <4>1. \A i \in S : i < n <=> i < m \/ i = m
        BY <1>0
      <4> HIDE DEF m
      <4>2. QED
        BY <2>3, <4>1
    <3>2. \A i \in T(m) : i < m
      OBVIOUS
    <3> HIDE DEF T, m, P
    <3>3. Ascending(T(n)) = Append(Ascending(T(m)), m)
      BY <1>1, <2>1, <3>1, <3>2, AscendingAppend
    <3>4. Sorted(Append(Ascending(T(m)), m))
      BY <1>1, <2>1, <2>2, <3>2, SortedAppend
    <3>5. QED
      BY <2>1, <3>3, <3>4 DEF P
  <2>4. CASE m \notin S
    <3>1. T(n) = T(m)
      <4>1. \A i \in S : i # m => (i < n <=> i < m)
        BY <1>0
      <4> HIDE DEF m
      <4>2. QED
        BY <2>4, <4>1
    <3> HIDE DEF T, m, P
    <3>2. QED
      BY <2>1, <2>2, <3>1 DEF P
  <2>5. QED
    BY <2>3, <2>4
<1>4. N \in P
  <2> HIDE DEF P
  <2>1. QED
    BY <1>2, <1>3, Induction
<1>5. T(N) = S
  BY <1>0
<1>6. QED
  <2> HIDE DEF T
  <2>1. QED
    BY <1>4, <1>5

(* The differences at some offsets.                                        *)
DifferencesAt(r, old, new) ==
    [k \in DOMAIN r |-> [offset |-> r[k], old |-> old[r[k] + 1], new |-> new[r[k] + 1]]]

(* A file that goes on as another begins.                                  *)
GoesOn(new, old) ==
    /\ Size <= Len(new)
    /\ \A i \in 1 .. Size : new[i] = IF section[i - 1] = 0 THEN old[i] ELSE 1 - old[i]

LEMMA HitsAreDifferences ==
    ASSUME section \in Sections, job = "diff", NEW old \in [1 .. Size -> {0, 1}],
           NEW new \in Seq({0, 1}), GoesOn(new, old)
    PROVE  /\ old \in Seq({0, 1})
           /\ AreDifferences({0, 1}, old, new, DifferencesAt(Ascending(Hits), old, new))
<1> DEFINE V == {0, 1}
           r == Ascending(Hits)
           diffs == DifferencesAt(r, old, new)
           C == Cardinality(Hits)
<1>1. Size \in Nat /\ old \in Seq(V) /\ Len(old) = Size /\ Len(new) \in Nat
  BY SizeAssumption, LenProperties
<1>2. Hits \in SUBSET (0 .. Size - 1)
  BY DEF Hits, Offsets
<1>3. /\ C \in Nat /\ r \in Seq(Hits) /\ Len(r) = C /\ DOMAIN r = 1 .. C
      /\ {r[k] : k \in 1 .. C} = Hits /\ Sorted(r)
  <2>1. /\ C \in 0 .. Size /\ r \in Seq(Hits) /\ Len(r) = C /\ DOMAIN r = 1 .. C
        /\ {r[k] : k \in 1 .. C} = Hits
    BY <1>1, <1>2, AscendingLists
  <2>2. Sorted(r)
    BY <1>1, <1>2, AscendingSorted
  <2> HIDE DEF r, C
  <2>3. C \in Nat
    BY <1>1, <2>1
  <2>4. QED
    BY <2>1, <2>2, <2>3
<1>4. \A i \in 0 .. Size - 1 : i \in Hits <=> section[i] # 0
  BY DEF Hits, Offsets, Hit, Sections
<1> HIDE DEF r, C
<1>5. ASSUME NEW i \in Hits
      PROVE  /\ i \in Nat /\ i < Size /\ i < Len(new)
             /\ old[i + 1] \in V /\ new[i + 1] \in V /\ old[i + 1] # new[i + 1]
  <2>1. i \in Nat /\ i < Size /\ i + 1 \in 1 .. Size /\ (i + 1) - 1 = i /\ section[i] # 0
    BY <1>1, <1>2, <1>4
  <2>2. new[i + 1] = 1 - old[i + 1] /\ old[i + 1] \in {0, 1} /\ Size <= Len(new)
    BY <2>1 DEF GoesOn
  <2>3. new[i + 1] \in {0, 1} /\ new[i + 1] # old[i + 1]
    BY <2>2
  <2>4. QED
    BY <1>1, <2>1, <2>2, <2>3
<1>6. /\ DOMAIN diffs = 1 .. C
      /\ \A k \in 1 .. C : /\ r[k] \in Hits
                           /\ diffs[k] = [offset |-> r[k], old |-> old[r[k] + 1], new |-> new[r[k] + 1]]
  BY <1>3 DEF DifferencesAt
<1> HIDE DEF diffs
<1>7. ASSUME NEW k \in 1 .. C PROVE diffs[k] \in Differing(V) /\ IsDifference(V, old, new, diffs[k])
  <2> DEFINE i == r[k]
  <2>1. i \in Hits /\ diffs[k] = [offset |-> i, old |-> old[i + 1], new |-> new[i + 1]]
    BY <1>6
  <2> HIDE DEF i
  <2>2. QED
    BY <1>1, <1>5, <2>1 DEF IsDifference, Differing
<1>8. diffs \in Seq(Differing(V)) /\ Len(diffs) = C
  <2>1. diffs = [k \in 1 .. C |-> diffs[k]]
    BY <1>6 DEF diffs, DifferencesAt
  <2>2. diffs \in [1 .. C -> Differing(V)]
    BY <1>7, <2>1
  <2>3. QED
    BY <1>3, <2>2
<1>9. \A k \in 1 .. C : k > 1 => diffs[k - 1].offset < diffs[k].offset
  <2>1. ASSUME NEW k \in 1 .. C, k > 1 PROVE diffs[k - 1].offset < diffs[k].offset
    <3>1. k - 1 \in 1 .. C
      BY <1>3, <2>1
    <3>2. r[k - 1] < r[k]
      BY <1>3, <2>1 DEF Sorted
    <3>3. diffs[k - 1].offset = r[k - 1] /\ diffs[k].offset = r[k]
      BY <1>6, <3>1
    <3>4. QED
      BY <3>2, <3>3
  <2>2. QED
    BY <2>1
<1>10. ASSUME NEW i \in Nat, i < Len(old), i < Len(new), old[i + 1] # new[i + 1]
       PROVE  \E k \in 1 .. C : diffs[k].offset = i
  <2>1. i \in 0 .. Size - 1 /\ i + 1 \in 1 .. Size /\ (i + 1) - 1 = i
    BY <1>1, <1>10
  <2>2. section[i] # 0
    BY <1>10, <2>1 DEF GoesOn
  <2>3. PICK k \in 1 .. C : r[k] = i
    BY <1>3, <1>4, <2>1, <2>2
  <2>4. QED
    BY <1>6, <2>3
<1>11. AreDifferences(V, old, new, diffs)
  BY <1>7, <1>8, <1>9, <1>10 DEF AreDifferences
<1>12. QED
  BY <1>1, <1>11 DEF diffs, r

LEMMA DiffRebuilds ==
    ASSUME section \in Sections, job = "diff", NEW old \in [1 .. Size -> {0, 1}],
           NEW new \in Seq({0, 1}), GoesOn(new, old),
           NEW chunks, chunks = MakeChunks(DifferencesAt(Ascending(Hits), old, new))
    PROVE  ChunksRebuild(old, new, chunks) /\ SignaturesFind(old, new, chunks)
<1> DEFINE V == {0, 1}
           diffs == DifferencesAt(Ascending(Hits), old, new)
<1>1. old \in Seq(V) /\ new \in Seq(V) /\ AreDifferences(V, old, new, diffs)
  BY HitsAreDifferences
<1> HIDE DEF V, diffs
<1>2. ChunksRebuild(old, new, MakeChunks(diffs))
  BY <1>1, ChunksAreRight
<1>3. ChunksOf(V, old, new, diffs, Len(diffs), MakeChunks(diffs))
  BY <1>1, ChunksAreOfAll
<1>4. /\ MakeChunks(diffs) \in Seq(Chunks(V))
      /\ \A c \in 1 .. Len(MakeChunks(diffs)) : IsChunk(V, old, new, MakeChunks(diffs)[c])
  BY <1>3 DEF ChunksOf
<1>5. SignaturesFind(old, new, MakeChunks(diffs))
  BY <1>1, <1>4, SignaturesAreRight
<1>6. chunks = MakeChunks(diffs)
  BY DEF diffs
<1>7. QED
  BY <1>2, <1>5, <1>6

LEMMA TailGoesOn ==
    ASSUME section \in Sections, NEW old \in [1 .. Size -> {0, 1}], NEW tail \in {<< >>, << 1 >>},
           NEW new, new = Changed(old) \o tail
    PROVE  new \in Seq({0, 1}) /\ GoesOn(new, old)
<1> DEFINE c == Changed(old)
<1>1. Size \in Nat
  BY SizeAssumption
<1>2. c = [i \in 1 .. Size |-> IF section[i - 1] = 0 THEN old[i] ELSE 1 - old[i]]
  BY DEF Changed
<1> HIDE DEF c
<1>3. \A i \in 1 .. Size : c[i] \in {0, 1}
  BY <1>2
<1>4. c \in Seq({0, 1}) /\ Len(c) = Size
  <2>1. c \in [1 .. Size -> {0, 1}]
    BY <1>2, <1>3
  <2>2. QED
    BY <1>1, <2>1
<1>5. tail \in Seq({0, 1}) /\ Len(tail) \in Nat
  <2>1. << >> \in Seq({0, 1})
    OBVIOUS
  <2>2. 1 \in {0, 1}
    OBVIOUS
  <2>3. << 1 >> \in Seq({0, 1})
    BY <2>2
  <2>4. tail \in Seq({0, 1})
    BY <2>1, <2>3
  <2>5. QED
    BY <2>4, LenProperties
<1>6. new = c \o tail
  BY DEF c
<1>7. /\ new \in Seq({0, 1}) /\ Len(new) = Size + Len(tail)
      /\ \A i \in 1 .. Size : new[i] = c[i]
  <2> DEFINE d == c \o tail
  <2>1. /\ d \in Seq({0, 1}) /\ Len(d) = Len(c) + Len(tail)
        /\ \A i \in 1 .. Len(c) : d[i] = c[i]
    BY <1>4, <1>5, ConcatProperties
  <2>2. new = d
    BY <1>6
  <2> HIDE DEF d
  <2>3. QED
    BY <1>4, <2>1, <2>2
<1>8. GoesOn(new, old)
  BY <1>1, <1>2, <1>5, <1>7 DEF GoesOn
<1>9. QED
  BY <1>7, <1>8

(* The chunks of a parallel diff rebuild the new file from the old, their  *)
(* signatures find them, and the sections are paired, for any number of    *)
(* threads and bytes: DiffEngine and PatternScanner.                       *)
THEOREM DiffIsDescribed == SafeSpec => []DiffDescribesChange
<1>1. IInv => DiffDescribesChange
  <2> SUFFICES ASSUME IInv, phase = "done", job = "diff", ~raced PROVE DiffDescribesChange
    BY DEF DiffDescribesChange
  <2>1. AllFound = Hits /\ section \in Sections
    BY DEF IInv, FoundInv, HitsHandled, TypeOK, ScanTypes
  <2>2. result = Ascending(Hits)
    BY <2>1 DEF IInv, MeasuredInv, AfterScans, Merged
  <2>3. ASSUME NEW old \in [1 .. Size -> {0, 1}], NEW tail \in {<< >>, << 1 >>}
        PROVE  LET new == Changed(old) \o tail
                   chunks == MakeChunks([k \in DOMAIN result |->
                                [offset |-> result[k], old |-> old[result[k] + 1],
                                 new |-> new[result[k] + 1]]])
               IN  ChunksRebuild(old, new, chunks) /\ SignaturesFind(old, new, chunks)
    <3> DEFINE new == Changed(old) \o tail
               chunks == MakeChunks(DifferencesAt(result, old, new))
    <3>1. new \in Seq({0, 1}) /\ GoesOn(new, old)
      BY <2>1, TailGoesOn
    <3>2. chunks = MakeChunks(DifferencesAt(Ascending(Hits), old, new))
      BY <2>2
    <3> HIDE DEF new, chunks
    <3>3. ChunksRebuild(old, new, chunks) /\ SignaturesFind(old, new, chunks)
      BY <2>1, <3>1, <3>2, DiffRebuilds
    <3>4. QED
      BY <3>3 DEF new, chunks, DifferencesAt
  <2>4. LET zeros == [i \in 1 .. Size |-> 0]
            versions == [name : {"a", "b"}, data : {zeros, Changed(zeros)}]
            lists == {<< >>} \cup {<<x>> : x \in versions} \cup (versions \X versions)
        IN  \A olds, news \in lists : SectionsArePaired(olds, news)
    <3> DEFINE zeros == [i \in 1 .. Size |-> 0]
               A == {"a", "b"}
               B == {zeros, Changed(zeros)}
               R == [name : A, data : B]
               lists == {<< >>} \cup {<<x>> : x \in R} \cup (R \X R)
    <3>1. lists \subseteq Seq(R)
      <4> HIDE DEF R
      <4>1. << >> \in Seq(R)
        OBVIOUS
      <4>2. \A x \in R : <<x>> \in Seq(R)
        OBVIOUS
      <4>3. \A x, y \in R : <<x, y>> \in Seq(R)
        OBVIOUS
      <4>4. R \X R \subseteq Seq(R)
        <5>1. ASSUME NEW p \in R \X R PROVE p \in Seq(R)
          <6>1. PICK x \in R, y \in R : p = <<x, y>>
            OBVIOUS
          <6>2. QED
            BY <4>3, <6>1
        <5>2. QED
          BY <5>1
      <4>5. QED
        BY <4>1, <4>2, <4>4
    <3>2. R = [name : A, data : B]
      OBVIOUS
    <3> HIDE DEF R, A, B
    <3>3. \A olds, news \in Seq(R) : SectionsArePaired(olds, news)
      BY <3>2, SectionsPaired
    <3>4. \A olds, news \in lists : SectionsArePaired(olds, news)
      <4> HIDE DEF lists
      <4>1. QED
        BY <3>1, <3>3
    <3>5. QED
      BY <3>4 DEF R, A, B
  <2>5. QED
    BY <2>3, <2>4 DEF DiffDescribesChange
<1>2. QED
  BY <1>1, Inductive, PTL
=============================================================================
