------------------------ MODULE LoadedBinary_proofs -------------------------
(***************************************************************************)
(* Proofs about what is computed from a binary: the dominators and loops   *)
(* of any code, however its functions share blocks and in whatever order   *)
(* they are built; the types of any variables, whatever is told of them;   *)
(* what any trigger makes dirty in any binary; what an index holds,        *)
(* whatever is created, built, cleared and loaded; the addresses of any    *)
(* images; and the references and strings of any binary, in whatever order *)
(* they are analysed.                                                      *)
(***************************************************************************)
EXTENDS LoadedBinary, FiniteSetTheorems, SequenceTheorems, TLAPS

-----------------------------------------------------------------------------
(* Rounds.  The library's induction theorems take an operator, which the   *)
(* provers cannot instantiate; here is induction for a set instead.        *)

(* Every set of numbers that is not empty has a least one.                 *)
LEMMA LeastNumber ==
    ASSUME NEW T \in SUBSET Nat, T # {}
    PROVE  \E m \in T : \A n \in T : m <= n
<1> DEFINE W == {0 .. m : m \in T}
           R == StrictSubsetOrdering(Nat)
<1>1. W \subseteq FiniteSubsetsOf(Nat) /\ W # {}
  <2>1. ASSUME NEW m \in T PROVE IsFiniteSet(0 .. m) /\ 0 .. m \subseteq Nat
    BY FS_Interval
  <2>2. QED
    BY <2>1 DEF FiniteSubsetsOf
<1>2. \E x \in W : \A y \in W : ~ (<<y, x>> \in R)
  <2>1. IsWellFoundedOn(R, FiniteSubsetsOf(Nat))
    BY FS_StrictSubsetOrderingWellFounded
  <2> HIDE DEF W, R
  <2>2. QED
    BY <1>1, <2>1, WFMin
<1>3. PICK m \in T : \A y \in W : <<y, 0 .. m>> \notin R
  BY <1>2
<1>4. ASSUME NEW n \in T, n < m PROVE FALSE
  <2>1. 0 .. n \subseteq 0 .. m /\ m \in 0 .. m /\ m \notin 0 .. n
    BY <1>4
  <2>2. <<0 .. n, 0 .. m>> \in R
    BY <2>1 DEF StrictSubsetOrdering
  <2>3. QED
    BY <1>3, <2>2
<1>5. ASSUME NEW n \in T PROVE m <= n
  <2>1. m \in Nat /\ n \in Nat /\ ~(n < m)
    BY <1>4
  <2>2. QED
    BY <2>1
<1>6. QED
  BY <1>3, <1>5, Zenon

(* Induction for a set of numbers.                                         *)
LEMMA Induction ==
    ASSUME NEW N \in Nat, NEW P, 0 \in P, \A n \in 1 .. N : n - 1 \in P => n \in P
    PROVE  \A n \in 0 .. N : n \in P
<1> DEFINE T == {n \in 0 .. N : n \notin P}
<1> SUFFICES ASSUME T # {} PROVE FALSE
  OBVIOUS
<1>1. PICK m \in T : \A n \in T : m <= n
  <2>1. T \in SUBSET Nat
    OBVIOUS
  <2> HIDE DEF T
  <2>2. QED
    BY <2>1, LeastNumber
<1>2. m \in 1 .. N /\ m - 1 \in 0 .. N /\ m - 1 \notin T
  BY <1>1
<1>3. QED
  BY <1>2

(* The function that Closure iterates is defined by its equation.          *)
Rounds(S, next, N, f) ==
    f = [n \in 0 .. N |-> IF n = 0 THEN S ELSE f[n - 1] \cup UNION {next[b] : b \in f[n - 1]}]

LEMMA RoundsExist ==
    ASSUME NEW S, NEW next, NEW N \in Nat
    PROVE  \E f : Rounds(S, next, N, f)
<1> DEFINE P == {n \in Nat : \E f : Rounds(S, next, n, f)}
<1>1. 0 \in P
  <2>1. Rounds(S, next, 0, [n \in 0 .. 0 |-> S])
    BY DEF Rounds
  <2>2. QED
    BY <2>1
<1>2. ASSUME NEW n \in 1 .. N, n - 1 \in P PROVE n \in P
  <2>1. PICK f : Rounds(S, next, n - 1, f)
    BY <1>2
  <2> DEFINE more == f[n - 1] \cup UNION {next[b] : b \in f[n - 1]}
             g == [i \in 0 .. n |-> IF i = n THEN more ELSE f[i]]
  <2>2. ASSUME NEW i \in 0 .. n
        PROVE  g[i] = IF i = 0 THEN S ELSE g[i - 1] \cup UNION {next[b] : b \in g[i - 1]}
    <3>1. CASE i = 0
      <4>1. g[0] = f[0] /\ 0 \in 0 .. n - 1
        OBVIOUS
      <4>2. f[0] = S
        BY <2>1, <4>1 DEF Rounds
      <4>3. QED
        BY <3>1, <4>1, <4>2
    <3>2. CASE i = n
      <4>1. g[i] = more /\ g[i - 1] = f[n - 1]
        BY <3>2
      <4>2. QED
        BY <3>2, <4>1
    <3>3. CASE i # 0 /\ i # n
      <4>1. i \in 0 .. n - 1 /\ g[i] = f[i] /\ g[i - 1] = f[i - 1]
        BY <3>3
      <4>2. f[i] = f[i - 1] \cup UNION {next[b] : b \in f[i - 1]}
        BY <2>1, <3>3, <4>1 DEF Rounds
      <4> HIDE DEF g
      <4>3. QED
        BY <3>3, <4>1, <4>2
    <3>4. QED
      BY <3>1, <3>2, <3>3
  <2>3. g = [i \in 0 .. n |->
               IF i = 0 THEN S ELSE g[i - 1] \cup UNION {next[b] : b \in g[i - 1]}]
    BY <2>2
  <2>4. Rounds(S, next, n, g)
    BY <2>3 DEF Rounds
  <2>5. QED
    BY <2>4
<1> HIDE DEF P
<1>3. N \in P
  BY <1>1, <1>2, Induction
<1>4. QED
  BY <1>3 DEF P

IsClosed(C, next) == \A b \in C : next[b] \subseteq C

Grows(f, S, T, next, N) ==
    /\ f[0] = S
    /\ \A n \in 1 .. N : f[n] = f[n - 1] \cup UNION {next[b] : b \in f[n - 1]}
    /\ \A n \in 0 .. N : S \subseteq f[n] /\ f[n] \subseteq T
    /\ \A C : S \subseteq C /\ IsClosed(C, next) => f[N] \subseteq C
    /\ Cardinality(T) <= N => IsClosed(f[N], next)

(* The rounds only add, what they add stays in any set that is closed, and *)
(* with as many rounds as such a set has members the last adds nothing.    *)
LEMMA RoundFacts ==
    ASSUME NEW T, NEW S \in SUBSET T, NEW next, NEW N \in Nat, NEW f,
           IsFiniteSet(T), IsClosed(T, next), Rounds(S, next, N, f)
    PROVE  Grows(f, S, T, next, N)
<1>1. f[0] = S
  BY DEF Rounds
<1>2. ASSUME NEW n \in 1 .. N PROVE f[n] = f[n - 1] \cup UNION {next[b] : b \in f[n - 1]}
  <2>1. n \in 0 .. N /\ n # 0
    OBVIOUS
  <2>2. f[n] = IF n = 0 THEN S ELSE f[n - 1] \cup UNION {next[b] : b \in f[n - 1]}
    BY <2>1, Zenon DEF Rounds
  <2>3. QED
    BY <2>1, <2>2
<1>3. ASSUME NEW C, S \subseteq C, IsClosed(C, next) PROVE \A n \in 0 .. N : f[n] \subseteq C
  <2> DEFINE P == {n \in Nat : f[n] \subseteq C}
  <2>1. 0 \in P
    BY <1>1, <1>3
  <2>2. ASSUME NEW n \in 1 .. N, n - 1 \in P PROVE n \in P
    BY <1>2, <1>3, <2>2 DEF IsClosed
  <2> HIDE DEF P
  <2>3. \A n \in 0 .. N : n \in P
    BY <2>1, <2>2, Induction
  <2>4. QED
    BY <2>3 DEF P
<1>4. \A n \in 0 .. N : S \subseteq f[n]
  <2> DEFINE P == {n \in Nat : S \subseteq f[n]}
  <2>1. 0 \in P
    BY <1>1
  <2>2. ASSUME NEW n \in 1 .. N, n - 1 \in P PROVE n \in P
    BY <1>2, <2>2
  <2> HIDE DEF P
  <2>3. \A n \in 0 .. N : n \in P
    BY <2>1, <2>2, Induction
  <2>4. QED
    BY <2>3 DEF P
<1>5. \A n \in 0 .. N : f[n] \subseteq T
  BY <1>3
<1>6. ASSUME Cardinality(T) <= N PROVE IsClosed(f[N], next)
  <2>0. Cardinality(T) \in Nat
    BY FS_CardinalityType
  <2> DEFINE P == {n \in Nat : IsClosed(f[n], next) \/ Cardinality(f[n]) >= n}
  <2>1. 0 \in P
    <3>1. Cardinality(f[0]) \in Nat
      BY <1>1, FS_Subset, FS_CardinalityType
    <3>2. QED
      BY <3>1
  <2>2. ASSUME NEW n \in 1 .. N, n - 1 \in P PROVE n \in P
    <3>1. CASE IsClosed(f[n - 1], next)
      <4>1. f[n] = f[n - 1]
        <5>1. UNION {next[b] : b \in f[n - 1]} \subseteq f[n - 1]
          BY <3>1 DEF IsClosed
        <5>2. f[n] = f[n - 1] \cup UNION {next[b] : b \in f[n - 1]}
          BY <1>2
        <5>3. QED
          BY <5>1, <5>2
      <4>2. QED
        BY <3>1, <4>1
    <3>2. CASE ~IsClosed(f[n - 1], next)
      <4>1. n - 1 \in 0 .. N /\ f[n - 1] \in SUBSET T /\ f[n] \in SUBSET T
        BY <1>5
      <4>2. Cardinality(f[n - 1]) >= n - 1
        BY <2>2, <3>2
      <4>3. f[n - 1] \in SUBSET f[n] /\ f[n - 1] # f[n]
        BY <1>2, <3>2 DEF IsClosed
      <4>4. IsFiniteSet(f[n])
        BY <4>1, FS_Subset
      <4>5. /\ IsFiniteSet(f[n - 1])
            /\ Cardinality(f[n - 1]) <= Cardinality(f[n])
            /\ Cardinality(f[n - 1]) # Cardinality(f[n])
        BY <4>3, <4>4, FS_Subset
      <4>6. Cardinality(f[n]) \in Nat /\ Cardinality(f[n - 1]) \in Nat
        BY <4>4, <4>5, FS_CardinalityType
      <4>7. QED
        BY <4>2, <4>5, <4>6
    <3>3. QED
      BY <3>1, <3>2
  <2> HIDE DEF P
  <2>3. N \in P
    BY <2>1, <2>2, Induction
  <2>4. CASE Cardinality(f[N]) >= N
    <3>1. f[N] \in SUBSET T
      BY <1>5
    <3>2. Cardinality(f[N]) <= Cardinality(T) /\ Cardinality(f[N]) \in Nat
      BY <3>1, FS_Subset, FS_CardinalityType
    <3>3. Cardinality(f[N]) = Cardinality(T)
      BY <1>6, <2>0, <2>4, <3>2
    <3>4. f[N] = T
      BY <3>1, <3>3, FS_Subset
    <3>5. QED
      BY <3>4
  <2>5. QED
    BY <2>3, <2>4 DEF P
<1>7. \A C : S \subseteq C /\ IsClosed(C, next) => f[N] \subseteq C
  <2>1. N \in 0 .. N
    OBVIOUS
  <2>2. QED
    BY <1>3, <2>1
<1>8. QED
  BY <1>1, <1>2, <1>4, <1>5, <1>6, <1>7 DEF Grows

(* The least set with S in it that next does not lead out of.              *)
IsLeast(C, S, next) ==
    /\ S \subseteq C /\ IsClosed(C, next)
    /\ \A D : S \subseteq D /\ IsClosed(D, next) => C \subseteq D

LEMMA ClosureIsLeast ==
    ASSUME IsFiniteSet(Blocks), NEW S \in SUBSET Blocks, NEW next, IsClosed(Blocks, next)
    PROVE  IsLeast(Closure(S, next), S, next)
<1> DEFINE N == Cardinality(Blocks)
<1>1. N \in Nat
  BY FS_CardinalityType
<1>2. PICK f : Rounds(S, next, N, f) /\ Closure(S, next) = f[N]
  <2> DEFINE g == CHOOSE f : Rounds(S, next, N, f)
  <2>1. Rounds(S, next, N, g)
    BY <1>1, RoundsExist
  <2>2. Closure(S, next) = g[N]
    BY DEF Closure, Rounds
  <2>3. QED
    BY <2>1, <2>2
<1> HIDE DEF N
<1>3. N <= N /\ N \in 0 .. N
  BY <1>1
<1>4. Rounds(S, next, N, f)
  BY <1>2
<1>5. Grows(f, S, Blocks, next, N)
  BY <1>1, <1>4, RoundFacts
<1>6. S \subseteq f[N] /\ IsClosed(f[N], next)
  BY <1>3, <1>5, Zenon DEF N, Grows
<1>7. IsLeast(f[N], S, next)
  BY <1>5, <1>6, Zenon DEF Grows, IsLeast
<1>8. QED
  BY <1>2, <1>7

LEMMA LeastIsOne ==
    ASSUME NEW C, NEW D, NEW S, NEW next, IsLeast(C, S, next), IsLeast(D, S, next)
    PROVE  C = D
<1>1. C \subseteq D /\ D \subseteq C
  BY Zenon DEF IsLeast
<1>2. QED
  BY <1>1

(* A value for every n is made from the one before: such a function        *)
(* exists.                                                                 *)
Iterates(f, S, a, N, h) ==
    f \in [0 .. N -> S] /\ f[0] = a /\ \A n \in 1 .. N : f[n] = h[<<f[n - 1], n>>]

LEMMA Recursion ==
    ASSUME NEW S, NEW a \in S, NEW N \in Nat, NEW h \in [S \X (1 .. N) -> S]
    PROVE  \E f : Iterates(f, S, a, N, h)
<1> DEFINE Upto(n, f) == Iterates(f, S, a, n, h)
           P == {n \in 0 .. N : \E f : Upto(n, f)}
<1>1. 0 \in P
  <2>1. Upto(0, [n \in 0 .. 0 |-> a])
    BY DEF Iterates
  <2> HIDE DEF Upto
  <2>2. QED
    BY <2>1
<1>2. ASSUME NEW n \in 1 .. N, n - 1 \in P PROVE n \in P
  <2>1. PICK f : Upto(n - 1, f)
    BY <1>2
  <2> DEFINE g == [i \in 0 .. n |-> IF i = n THEN h[<<f[n - 1], n>>] ELSE f[i]]
  <2>2. f[n - 1] \in S /\ <<f[n - 1], n>> \in S \X (1 .. N)
    BY <2>1 DEF Iterates
  <2>3. h[<<f[n - 1], n>>] \in S
    BY <2>2
  <2>4. g \in [0 .. n -> S] /\ g[0] = a
    BY <2>1, <2>3 DEF Iterates
  <2>5. ASSUME NEW i \in 1 .. n PROVE g[i] = h[<<g[i - 1], i>>]
    <3>1. CASE i = n
      <4>1. g[i] = h[<<f[n - 1], n>>] /\ g[i - 1] = f[n - 1]
        BY <3>1
      <4> HIDE DEF g
      <4>2. QED
        BY <3>1, <4>1
    <3>2. CASE i # n
      <4>1. i \in 1 .. n - 1 /\ g[i] = f[i] /\ g[i - 1] = f[i - 1]
        BY <3>2
      <4> HIDE DEF g
      <4>2. QED
        BY <2>1, <4>1 DEF Iterates
    <3>3. QED
      BY <3>1, <3>2
  <2>6. Upto(n, g)
    <3> HIDE DEF g
    <3>1. QED
      BY <2>4, <2>5 DEF Iterates
  <2> HIDE DEF Upto, g
  <2>7. QED
    BY <2>6
<1>3. N \in P
  <2> HIDE DEF P
  <2>1. QED
    BY <1>1, <1>2, Induction
<1>4. QED
  BY <1>3

-----------------------------------------------------------------------------
(* Dominators.                                                             *)

(* A function whose edges are its own.                                     *)
Edged(f) ==
    /\ IsFiniteSet(Blocks) /\ In(f) \subseteq Blocks /\ Entry(f) \in In(f)
    /\ succs \in [Blocks -> SUBSET Blocks] /\ preds \in [Blocks -> SUBSET Blocks]
    /\ \A b \in In(f) : /\ succs[b] \subseteq In(f)
                        /\ preds[b] = {p \in In(f) : b \in succs[p]}

Avoiding(d) == [b \in Blocks |-> succs[b] \ {d}]

(* What is reached from the entry without d, round by round.               *)
Reach(f, d, N) == CHOOSE r : Rounds({Entry(f)} \ {d}, Avoiding(d), N, r)

LEMMA ReachGrows ==
    ASSUME NEW f, Edged(f), NEW d, NEW N \in Nat
    PROVE  Grows(Reach(f, d, N), {Entry(f)} \ {d}, In(f), Avoiding(d), N)
<1>1. Rounds({Entry(f)} \ {d}, Avoiding(d), N, Reach(f, d, N))
  BY RoundsExist DEF Reach
<1>2. IsFiniteSet(In(f))
  BY FS_Subset DEF Edged
<1>3. IsClosed(In(f), Avoiding(d))
  BY DEF Edged, IsClosed, Avoiding
<1>4. {Entry(f)} \ {d} \in SUBSET In(f)
  BY DEF Edged
<1>5. QED
  BY <1>1, <1>2, <1>3, <1>4, RoundFacts

Searched(f, d, N, r) ==
    /\ r[0] = {Entry(f)} \ {d}
    /\ \A n \in 1 .. N : \A b : b \in r[n] <=>
          b \in r[n - 1] \/ (b # d /\ \E p \in r[n - 1] : b \in succs[p])
    /\ \A n \in 0 .. N :
          /\ r[n] \subseteq In(f) /\ d \notin r[n]
          /\ Entry(f) # d => Entry(f) \in r[n]
          /\ \A b \in r[n] : b = Entry(f) \/ \E p \in r[n] : b \in succs[p]

LEMMA ReachRounds ==
    ASSUME NEW f, Edged(f), NEW d, NEW N \in Nat
    PROVE  Searched(f, d, N, Reach(f, d, N))
<1> DEFINE r == Reach(f, d, N)
           S == {Entry(f)} \ {d}
<1>1. Grows(r, S, In(f), Avoiding(d), N)
  BY ReachGrows
<1> HIDE DEF r
<1>2. r[0] = S /\ \A n \in 0 .. N : S \subseteq r[n] /\ r[n] \subseteq In(f)
  BY <1>1 DEF Grows
<1>3. ASSUME NEW n \in 1 .. N
      PROVE  \A b : b \in r[n] <=>
                b \in r[n - 1] \/ (b # d /\ \E p \in r[n - 1] : b \in succs[p])
  <2>1. r[n] = r[n - 1] \cup UNION {Avoiding(d)[p] : p \in r[n - 1]}
    BY <1>1 DEF Grows
  <2>2. r[n - 1] \subseteq In(f)
    <3>1. n - 1 \in 0 .. N
      OBVIOUS
    <3>2. QED
      BY <1>2, <3>1
  <2>3. \A p \in r[n - 1] : Avoiding(d)[p] = succs[p] \ {d}
    BY <2>2 DEF Avoiding, Edged
  <2>4. QED
    BY <2>1, <2>3
<1>4. \A n \in 0 .. N : d \notin r[n]
  <2> DEFINE P == {n \in Nat : d \notin r[n]}
  <2>1. 0 \in P
    BY <1>2
  <2>2. ASSUME NEW n \in 1 .. N, n - 1 \in P PROVE n \in P
    BY <1>3, <2>2
  <2> HIDE DEF P
  <2>3. \A n \in 0 .. N : n \in P
    BY <2>1, <2>2, Induction
  <2>4. QED
    BY <2>3 DEF P
<1>5. \A n \in 0 .. N : \A b \in r[n] : b = Entry(f) \/ \E p \in r[n] : b \in succs[p]
  <2> DEFINE P == {n \in Nat : \A b \in r[n] : b = Entry(f) \/ \E p \in r[n] : b \in succs[p]}
  <2>1. 0 \in P
    BY <1>2
  <2>2. ASSUME NEW n \in 1 .. N, n - 1 \in P PROVE n \in P
    <3>1. \A b \in r[n - 1] : b = Entry(f) \/ \E p \in r[n - 1] : b \in succs[p]
      BY <2>2
    <3>2. r[n - 1] \subseteq r[n]
      BY <1>3
    <3>3. ASSUME NEW b \in r[n], b # Entry(f) PROVE \E p \in r[n] : b \in succs[p]
      <4>1. \E p \in r[n - 1] : b \in succs[p]
        BY <1>3, <3>1, <3>3
      <4>2. QED
        BY <3>2, <4>1
    <3>4. QED
      BY <3>3
  <2> HIDE DEF P
  <2>3. \A n \in 0 .. N : n \in P
    BY <2>1, <2>2, Induction
  <2>4. QED
    BY <2>3 DEF P
<1>6. \A n \in 0 .. N : Entry(f) # d => Entry(f) \in r[n]
  BY <1>2
<1>7. QED
  BY <1>2, <1>3, <1>4, <1>5, <1>6, Zenon DEF r, Searched

(* The same seen from the dominators.                                      *)
Unreached(f, N, n) == [b \in In(f) |-> {d \in In(f) : b \notin Reach(f, d, N)[n]}]

LEMMA UnreachedFirst ==
    ASSUME NEW f, Edged(f), NEW N \in Nat
    PROVE  Unreached(f, N, 0) = [b \in In(f) |-> IF b = Entry(f) THEN {b} ELSE In(f)]
<1>1. ASSUME NEW b \in In(f)
      PROVE  {d \in In(f) : b \notin Reach(f, d, N)[0]} = IF b = Entry(f) THEN {b} ELSE In(f)
  <2>1. \A d \in In(f) : Reach(f, d, N)[0] = {Entry(f)} \ {d}
    BY ReachRounds DEF Searched
  <2>2. \A d \in In(f) : b \notin Reach(f, d, N)[0] <=> b # Entry(f) \/ b = d
    BY <2>1
  <2>3. QED
    BY <2>2
<1>2. QED
  BY <1>1 DEF Unreached

(* A round of the loop in compute is a round of the search, for every      *)
(* block that is avoided.                                                  *)
LEMMA UnreachedNext ==
    ASSUME NEW f, Edged(f), NEW N \in Nat, NEW n \in 1 .. N
    PROVE  Unreached(f, N, n) = [b \in In(f) |-> Narrowed(f, Unreached(f, N, n - 1), b)]
<1> DEFINE U == Unreached(f, N, n - 1)
           r(d) == Reach(f, d, N)
<1>1. n - 1 \in 0 .. N /\ n \in 0 .. N
  OBVIOUS
<1>2. ASSUME NEW d
      PROVE  /\ \A b : b \in r(d)[n] <=>
                   b \in r(d)[n - 1] \/ (b # d /\ \E p \in r(d)[n - 1] : b \in succs[p])
             /\ r(d)[n - 1] \subseteq In(f) /\ d \notin r(d)[n - 1]
             /\ Entry(f) # d => Entry(f) \in r(d)[n - 1]
             /\ \A b \in r(d)[n - 1] : b = Entry(f) \/ \E p \in r(d)[n - 1] : b \in succs[p]
  <2> DEFINE rd == Reach(f, d, N)
  <2>1. Searched(f, d, N, rd)
    BY ReachRounds
  <2> HIDE DEF rd
  <2>2. QED
    BY <1>1, <2>1, Zenon DEF rd, Searched
<1> HIDE DEF r
<1>3. \A b \in In(f) : U[b] = {d \in In(f) : b \notin r(d)[n - 1]}
  BY DEF Unreached, r
<1>4. ASSUME NEW b \in In(f) PROVE {d \in In(f) : b \notin r(d)[n]} = Narrowed(f, U, b)
  <2> DEFINE W == {d \in In(f) : b \notin r(d)[n]}
  <2>1. preds[b] = {p \in In(f) : b \in succs[p]}
    BY DEF Edged
  <2>2. CASE b = Entry(f)
    <3>1. ASSUME NEW d \in In(f) PROVE b \notin r(d)[n] <=> b \notin r(d)[n - 1]
      BY <1>2, <2>2
    <3>2. W = U[b]
      BY <1>3, <3>1
    <3>3. QED
      BY <2>2, <3>2 DEF Narrowed
  <2>3. CASE b # Entry(f) /\ preds[b] = {}
    <3>1. ASSUME NEW d \in In(f) PROVE b \notin r(d)[n] <=> b \notin r(d)[n - 1]
      BY <1>2, <2>1, <2>3
    <3>2. W = U[b]
      BY <1>3, <3>1
    <3>3. QED
      BY <2>3, <3>2 DEF Narrowed
  <2>4. CASE b # Entry(f) /\ preds[b] # {}
    <3> DEFINE V == {b} \cup {d \in In(f) : \A p \in preds[b] : p \in In(f) /\ d \in U[p]}
    <3>1. Narrowed(f, U, b) = V
      <4> HIDE DEF U
      <4>1. QED
        BY <2>4 DEF Narrowed
    <3>2. ASSUME NEW d \in In(f)
          PROVE  b \notin r(d)[n] <=>
                    d = b \/ \A p \in preds[b] : p \in In(f) /\ p \notin r(d)[n - 1]
      <4>1. b \in r(d)[n - 1] => d # b /\ \E p \in preds[b] : p \in r(d)[n - 1]
        BY <1>2, <2>1, <2>4
      <4>2. b \in r(d)[n] <=>
               b \in r(d)[n - 1] \/ (b # d /\ \E p \in preds[b] : p \in r(d)[n - 1])
        BY <1>2, <2>1
      <4>3. \A p \in preds[b] : p \in In(f)
        BY <2>1
      <4>4. QED
        BY <4>1, <4>2, <4>3, Zenon
    <3>3. ASSUME NEW d \in In(f), NEW p \in preds[b] PROVE d \in U[p] <=> p \notin r(d)[n - 1]
      BY <1>3, <2>1
    <3>4. ASSUME NEW d \in In(f) PROVE d \in W <=> d \in V
      <4> HIDE DEF U
      <4>1. QED
        BY <3>2, <3>3
    <3>5. W \subseteq In(f) /\ V \subseteq In(f)
      OBVIOUS
    <3>6. W = V
      BY <3>4, <3>5
    <3>7. QED
      BY <3>1, <3>6
  <2>5. QED
    BY <2>2, <2>3, <2>4
<1>5. QED
  BY <1>4 DEF Unreached, r

(* What Dominators computes, by its equation.                              *)
DominatorRounds(f, N, g) ==
    g = [n \in 0 .. N |->
            IF n = 0 THEN [b \in In(f) |-> IF b = Entry(f) THEN {b} ELSE In(f)]
            ELSE [b \in In(f) |-> Narrowed(f, g[n - 1], b)]]

LEMMA DominatorsAreUnreached ==
    ASSUME NEW f, Edged(f)
    PROVE  LET N == Cardinality(In(f)) IN N \in Nat /\ Dominators(f) = Unreached(f, N, N)
<1> DEFINE N == Cardinality(In(f))
           u == [n \in 0 .. N |-> Unreached(f, N, n)]
           g == CHOOSE h : DominatorRounds(f, N, h)
<1>1. N \in Nat
  BY FS_Subset, FS_CardinalityType DEF Edged
<1> HIDE DEF N
<1>2. DominatorRounds(f, N, u)
  <2>1. ASSUME NEW n \in 0 .. N
        PROVE  u[n] = IF n = 0 THEN [b \in In(f) |-> IF b = Entry(f) THEN {b} ELSE In(f)]
                      ELSE [b \in In(f) |-> Narrowed(f, u[n - 1], b)]
    <3>1. CASE n = 0
      <4>1. u[n] = Unreached(f, N, 0)
        BY <3>1
      <4>2. QED
        BY <1>1, <3>1, <4>1, UnreachedFirst
    <3>2. CASE n # 0
      <4>1. n \in 1 .. N /\ n - 1 \in 0 .. N
        BY <1>1, <3>2
      <4>2. u[n] = Unreached(f, N, n) /\ u[n - 1] = Unreached(f, N, n - 1)
        BY <4>1
      <4>3. Unreached(f, N, n) = [b \in In(f) |-> Narrowed(f, Unreached(f, N, n - 1), b)]
        BY <1>1, <4>1, UnreachedNext
      <4> HIDE DEF u
      <4>4. QED
        BY <3>2, <4>2, <4>3
    <3>3. QED
      BY <3>1, <3>2
  <2>2. u = [n \in 0 .. N |->
                IF n = 0 THEN [b \in In(f) |-> IF b = Entry(f) THEN {b} ELSE In(f)]
                ELSE [b \in In(f) |-> Narrowed(f, u[n - 1], b)]]
    BY <2>1
  <2> HIDE DEF u
  <2>3. QED
    BY <2>2 DEF DominatorRounds
<1>3. DominatorRounds(f, N, g)
  <2> HIDE DEF u
  <2>1. QED
    BY <1>2
<1>4. Dominators(f) = g[N]
  BY DEF Dominators, DominatorRounds, N
<1> HIDE DEF g
<1>5. g[0] = Unreached(f, N, 0)
  <2>1. 0 \in 0 .. N
    BY <1>1
  <2>2. g[0] = [b \in In(f) |-> IF b = Entry(f) THEN {b} ELSE In(f)]
    BY <1>3, <2>1 DEF DominatorRounds
  <2>3. QED
    BY <1>1, <2>2, UnreachedFirst
<1>6. ASSUME NEW n \in 1 .. N, g[n - 1] = Unreached(f, N, n - 1)
      PROVE  g[n] = Unreached(f, N, n)
  <2>1. n \in 0 .. N /\ n # 0
    BY <1>1
  <2>2. g[n] = IF n = 0 THEN [b \in In(f) |-> IF b = Entry(f) THEN {b} ELSE In(f)]
               ELSE [b \in In(f) |-> Narrowed(f, g[n - 1], b)]
    BY <1>3, <2>1, Zenon DEF DominatorRounds
  <2>3. g[n] = [b \in In(f) |-> Narrowed(f, Unreached(f, N, n - 1), b)]
    BY <1>6, <2>1, <2>2, Zenon
  <2>4. QED
    BY <1>1, <2>3, UnreachedNext
<1>7. g[N] = Unreached(f, N, N)
  <2> DEFINE P == {n \in Nat : g[n] = Unreached(f, N, n)}
  <2>1. 0 \in P
    BY <1>5
  <2>2. ASSUME NEW n \in 1 .. N, n - 1 \in P PROVE n \in P
    BY <1>1, <1>6, <2>2
  <2> HIDE DEF P
  <2>3. N \in P
    BY <1>1, <2>1, <2>2, Induction
  <2>4. QED
    BY <2>3 DEF P
<1>8. QED
  BY <1>1, <1>4, <1>7 DEF N

(* After as many rounds as the function has blocks the search is over.     *)
LEMMA ReachEnds ==
    ASSUME NEW f, Edged(f), NEW d, NEW M \in Nat, NEW n \in 0 .. M, Cardinality(In(f)) <= n
    PROVE  Reach(f, d, M)[n] = ReachedFrom(Entry(f), {d})
<1> DEFINE S == {Entry(f)} \ {d}
           r == Reach(f, d, M)
           N == Cardinality(In(f))
<1>1. Grows(r, S, In(f), Avoiding(d), M)
  BY ReachGrows
<1>2. IsFiniteSet(In(f)) /\ N \in Nat
  BY FS_Subset, FS_CardinalityType DEF Edged
<1>3. IsClosed(In(f), Avoiding(d)) /\ S \in SUBSET In(f)
  BY DEF Edged, IsClosed, Avoiding
<1>4. Rounds(S, Avoiding(d), n, [m \in 0 .. n |-> r[m]])
  <2>1. Rounds(S, Avoiding(d), M, r)
    BY RoundsExist DEF Reach
  <2> HIDE DEF r, S
  <2>2. ASSUME NEW m \in 0 .. n
        PROVE  r[m] = IF m = 0 THEN S ELSE r[m - 1] \cup UNION {Avoiding(d)[b] : b \in r[m - 1]}
    <3>1. m \in 0 .. M
      OBVIOUS
    <3>2. QED
      BY <2>1, <3>1, Zenon DEF Rounds
  <2> DEFINE g == [m \in 0 .. n |-> r[m]]
  <2>3. ASSUME NEW m \in 0 .. n
        PROVE  g[m] = IF m = 0 THEN S ELSE g[m - 1] \cup UNION {Avoiding(d)[b] : b \in g[m - 1]}
    <3>1. m # 0 => m - 1 \in 0 .. n
      OBVIOUS
    <3>2. g[m] = r[m] /\ (m # 0 => g[m - 1] = r[m - 1])
      BY <3>1
    <3> HIDE DEF g
    <3>3. QED
      BY <2>2, <3>2
  <2>4. g = [m \in 0 .. n |->
               IF m = 0 THEN S ELSE g[m - 1] \cup UNION {Avoiding(d)[b] : b \in g[m - 1]}]
    BY <2>3
  <2> HIDE DEF g
  <2>5. Rounds(S, Avoiding(d), n, g)
    BY <2>4, Zenon DEF Rounds
  <2>6. QED
    BY <2>5 DEF g
<1> DEFINE g == [m \in 0 .. n |-> r[m]]
<1> HIDE DEF r, S, N
<1>5. Grows(g, S, In(f), Avoiding(d), n)
  BY <1>2, <1>3, <1>4, RoundFacts
<1>6. n \in 0 .. n /\ g[n] = r[n]
  OBVIOUS
<1> HIDE DEF g
<1>7. IsLeast(r[n], S, Avoiding(d))
  <2>1. S \subseteq g[n] /\ IsClosed(g[n], Avoiding(d))
    BY <1>5, <1>6 DEF Grows
  <2>2. IsLeast(g[n], S, Avoiding(d))
    BY <1>5, <2>1, Zenon DEF Grows, IsLeast
  <2>3. QED
    BY <1>6, <2>2
<1>8. IsLeast(Closure(S, Avoiding(d)), S, Avoiding(d))
  <2>1. IsClosed(Blocks, Avoiding(d))
    BY DEF Edged, IsClosed, Avoiding
  <2>2. S \in SUBSET Blocks /\ IsFiniteSet(Blocks)
    BY DEF S, Edged
  <2>3. QED
    BY <2>1, <2>2, ClosureIsLeast
<1>9. ReachedFrom(Entry(f), {d}) = Closure(S, Avoiding(d))
  BY DEF ReachedFrom, Avoiding, S
<1>10. QED
  BY <1>7, <1>8, <1>9, LeastIsOne DEF r

(* The dominators of a block are the blocks without which it is not        *)
(* reached; one that is not reached at all has all of them.                *)
LEMMA DominatorsAreAvoided ==
    ASSUME NEW f, Edged(f), NEW b \in In(f)
    PROVE  Dominators(f)[b] = {d \in In(f) : Dominates(f, d, b)}
<1> DEFINE N == Cardinality(In(f))
<1>1. N \in Nat /\ Dominators(f) = Unreached(f, N, N)
  BY DominatorsAreUnreached
<1> HIDE DEF N
<1>2. ASSUME NEW d \in In(f) PROVE Reach(f, d, N)[N] = ReachedFrom(Entry(f), {d})
  <2>1. N \in 0 .. N /\ Cardinality(In(f)) <= N
    BY <1>1 DEF N
  <2>2. QED
    BY <1>1, <2>1, ReachEnds
<1>3. Dominators(f)[b] = {d \in In(f) : b \notin Reach(f, d, N)[N]}
  BY <1>1 DEF Unreached
<1>4. QED
  BY <1>2, <1>3 DEF Dominates

(* Another round changes nothing, so that compute ends with the same       *)
(* dominators if it stops at the first that does not.                      *)
LEMMA DominatorsAreFixed ==
    ASSUME NEW f, Edged(f), NEW b \in In(f)
    PROVE  Narrowed(f, Dominators(f), b) = Dominators(f)[b]
<1> DEFINE N == Cardinality(In(f))
           M == N + 1
<1>1. N \in Nat /\ Dominators(f) = Unreached(f, N, N)
  BY DominatorsAreUnreached
<1> HIDE DEF N
<1>2. /\ M \in Nat /\ M \in 1 .. M /\ M - 1 = N /\ N \in 0 .. M /\ M \in 0 .. M
      /\ Cardinality(In(f)) <= N /\ Cardinality(In(f)) <= M /\ N \in 0 .. N
  BY <1>1 DEF N
<1> HIDE DEF M
<1>3. Unreached(f, M, M) = [c \in In(f) |-> Narrowed(f, Unreached(f, M, N), c)]
  <2>1. Unreached(f, M, M) = [c \in In(f) |-> Narrowed(f, Unreached(f, M, M - 1), c)]
    BY <1>2, UnreachedNext
  <2>2. QED
    BY <1>2, <2>1
<1>4. ASSUME NEW d
      PROVE  /\ Reach(f, d, N)[N] = ReachedFrom(Entry(f), {d})
             /\ Reach(f, d, M)[N] = ReachedFrom(Entry(f), {d})
             /\ Reach(f, d, M)[M] = ReachedFrom(Entry(f), {d})
  BY <1>1, <1>2, ReachEnds
<1>5. Unreached(f, M, N) = Unreached(f, N, N) /\ Unreached(f, M, M) = Unreached(f, N, N)
  BY <1>4 DEF Unreached
<1>6. QED
  BY <1>1, <1>3, <1>5

-----------------------------------------------------------------------------
(* Loops.                                                                  *)

LEMMA ReachedIsLeast ==
    ASSUME NEW f, Edged(f), NEW b \in Blocks, NEW A
    PROVE  IsLeast(ReachedFrom(b, A), {b} \ A, [x \in Blocks |-> succs[x] \ A])
<1> DEFINE next == [x \in Blocks |-> succs[x] \ A]
<1>1. IsClosed(Blocks, next)
  BY DEF Edged, IsClosed
<1>2. {b} \ A \in SUBSET Blocks /\ IsFiniteSet(Blocks)
  BY DEF Edged
<1> HIDE DEF next
<1>3. IsLeast(Closure({b} \ A, next), {b} \ A, next)
  BY <1>1, <1>2, ClosureIsLeast
<1>4. QED
  BY <1>3 DEF ReachedFrom, next

(* The blocks of a loop behind its header: the header is on every path to  *)
(* them, and each has a way to the source that stays among them.           *)
IsBody(f, header, source, body) ==
    /\ header \notin body
    /\ \A b \in body : Dominates(f, header, b) /\ source \in ReachedFrom(b, Blocks \ body)

(* What leads to the source without the header: it is not reached without  *)
(* the header, and has a way to the source that stays within.              *)
LEMMA BodyOfLoop ==
    ASSUME NEW f, NEW source, NEW header,
           Edged(f), source \in In(f), Dominates(f, header, source)
    PROVE  IsBody(f, header, source,
                  Closure({source} \ {header}, [b \in Blocks |-> preds[b] \ {header}]))
<1> DEFINE S == {source} \ {header}
           next == [b \in Blocks |-> preds[b] \ {header}]
           body == Closure(S, next)
           R == ReachedFrom(Entry(f), {header})
           D == {b \in In(f) \ {header} : b \notin R}
           E == {b \in body : source \in ReachedFrom(b, Blocks \ body)}
<1>1. /\ In(f) \subseteq Blocks /\ Entry(f) \in Blocks
      /\ \A b \in In(f) : /\ preds[b] = {p \in In(f) : b \in succs[p]}
                          /\ next[b] = preds[b] \ {header}
  BY DEF Edged
<1>2. IsLeast(body, S, next)
  <2>1. IsClosed(Blocks, next)
    BY DEF Edged, IsClosed
  <2>2. S \in SUBSET Blocks /\ IsFiniteSet(Blocks)
    BY DEF Edged
  <2> HIDE DEF S, next
  <2>3. QED
    BY <2>1, <2>2, ClosureIsLeast
<1>3. IsLeast(R, {Entry(f)} \ {header}, [x \in Blocks |-> succs[x] \ {header}])
  BY <1>1, ReachedIsLeast
<1>4. source \notin R
  BY DEF Dominates
<1> HIDE DEF body, R
<1>5. ASSUME NEW p \in R, NEW b \in succs[p], p \in Blocks, b # header PROVE b \in R
  BY <1>3, <1>5 DEF IsLeast, IsClosed
<1>6. body \subseteq D
  <2>1. S \subseteq D
    BY <1>4
  <2>2. ASSUME NEW b \in D, NEW p \in next[b] PROVE p \in D
    <3>1. p \in In(f) /\ b \in succs[p] /\ p # header
      BY <1>1
    <3>2. p \notin R
      BY <1>1, <1>5, <3>1
    <3>3. QED
      BY <3>1, <3>2
  <2>3. IsClosed(D, next)
    <3> HIDE DEF D, next
    <3>1. QED
      BY <2>2 DEF IsClosed
  <2> HIDE DEF D, S, next
  <2>4. QED
    BY <1>2, <2>1, <2>3, Zenon DEF IsLeast
<1>7. body \subseteq E
  <2>1. ASSUME NEW b \in body
        PROVE  IsLeast(ReachedFrom(b, Blocks \ body), {b},
                       [x \in Blocks |-> succs[x] \ (Blocks \ body)])
    <3>1. b \in Blocks /\ {b} \ (Blocks \ body) = {b}
      BY <1>1, <1>6
    <3> DEFINE A == Blocks \ body
    <3>2. {b} \ A = {b}
      BY <3>1
    <3> HIDE DEF A
    <3>3. IsLeast(ReachedFrom(b, A), {b} \ A, [x \in Blocks |-> succs[x] \ A])
      BY <3>1, ReachedIsLeast
    <3>4. IsLeast(ReachedFrom(b, A), {b}, [x \in Blocks |-> succs[x] \ A])
      BY <3>2, <3>3
    <3>5. QED
      BY <3>4 DEF A
  <2> DEFINE within == [x \in Blocks |-> succs[x] \ (Blocks \ body)]
             W(b) == ReachedFrom(b, Blocks \ body)
  <2>2. \A b \in body : IsLeast(W(b), {b}, within)
    BY <2>1
  <2>3. \A b \in Blocks : within[b] = succs[b] \ (Blocks \ body)
    OBVIOUS
  <2>4. S \subseteq E
    <3>1. ASSUME NEW b \in S PROVE b \in body /\ b = source
      BY <1>2 DEF IsLeast
    <3>2. ASSUME NEW b \in S PROVE source \in W(b)
      BY <2>2, <3>1 DEF IsLeast
    <3>3. QED
      BY <3>1, <3>2
  <2>5. ASSUME NEW b \in E, NEW p \in next[b] PROVE p \in E
    <3>1. b \in body /\ b \in In(f) /\ source \in W(b)
      BY <1>6
    <3>2. p \in body
      <4> HIDE DEF next, S
      <4>1. QED
        BY <1>2, <3>1 DEF IsLeast, IsClosed
    <3>3. p \in In(f) /\ b \in succs[p] /\ p \in Blocks
      BY <1>1, <3>1
    <3>4. b \in within[p]
      BY <2>3, <3>1, <3>3
    <3> HIDE DEF W, within
    <3>5. p \in W(p) /\ IsClosed(W(p), within)
      BY <2>2, <3>2 DEF IsLeast
    <3>6. {b} \subseteq W(p)
      BY <3>4, <3>5 DEF IsClosed
    <3>7. W(b) \subseteq W(p)
      BY <2>2, <3>1, <3>5, <3>6, Zenon DEF IsLeast
    <3>8. source \in W(p)
      BY <3>1, <3>7
    <3>9. QED
      BY <3>2, <3>8 DEF W
  <2>6. IsClosed(E, next)
    <3> HIDE DEF E, next
    <3>1. QED
      BY <2>5 DEF IsClosed
  <2> HIDE DEF E, S, next
  <2>7. QED
    BY <1>2, <2>4, <2>6, Zenon DEF IsLeast
<1>8. header \notin body /\ \A b \in body : b \notin R /\ source \in ReachedFrom(b, Blocks \ body)
  BY <1>6, <1>7
<1>9. \A b : Dominates(f, header, b) <=> b \notin R
  BY DEF Dominates, R
<1>10. QED
  BY <1>8, <1>9 DEF body, IsBody

LEMMA LoopIsNatural ==
    ASSUME NEW f, Edged(f), NEW l \in Loops(f)
    PROVE  /\ Dominates(f, l.header, l.source)
           /\ \A b \in l.blocks :
                /\ Dominates(f, l.header, b)
                /\ b # l.header => l.source \in ReachedFrom(b, Blocks \ (l.blocks \ {l.header}))
<1>1. PICK e \in In(f) \X Blocks :
          /\ e[2] \in succs[e[1]]
          /\ e[2] \in Upwards(f, Dominators(f), e[1])
          /\ l = [header |-> e[2], source |-> e[1], blocks |-> LoopBlocks(e[2], e[1])]
  BY DEF Loops
<1> DEFINE h == e[2]
           s == e[1]
           body == Closure({s} \ {h}, [b \in Blocks |-> preds[b] \ {h}])
<1>2. l.header = h /\ l.source = s /\ l.blocks = {h} \cup body
  BY <1>1 DEF LoopBlocks
<1>3. s \in In(f) /\ h \in In(f) /\ h \in Upwards(f, Dominators(f), s)
  BY <1>1 DEF Edged
<1> HIDE DEF h, s
<1>4. \A b \in In(f) : Dominates(f, b, b)
  <2>1. ASSUME NEW b \in In(f) PROVE Dominates(f, b, b)
    <3>1. IsLeast(ReachedFrom(Entry(f), {b}), {Entry(f)} \ {b}, [x \in Blocks |-> succs[x] \ {b}])
      BY ReachedIsLeast DEF Edged
    <3>2. IsClosed(Blocks \ {b}, [x \in Blocks |-> succs[x] \ {b}])
      BY DEF IsClosed, Edged
    <3>3. {Entry(f)} \ {b} \subseteq Blocks \ {b}
      BY DEF Edged
    <3>4. ReachedFrom(Entry(f), {b}) \subseteq Blocks \ {b}
      BY <3>1, <3>2, <3>3, Zenon DEF IsLeast
    <3>5. QED
      BY <3>4 DEF Dominates
  <2>2. QED
    BY <2>1
<1>5. Dominates(f, h, s)
  <2>1. CASE h = s
    BY <1>3, <1>4, <2>1
  <2>2. CASE h # s
    <3>1. h \in Dominators(f)[s]
      BY <1>3, <2>2 DEF Upwards, ImmediateDominators
    <3>2. QED
      BY <1>3, <3>1, DominatorsAreAvoided
  <2>3. QED
    BY <2>1, <2>2
<1>6. IsBody(f, h, s, body)
  <2>1. s \in In(f)
    BY <1>3
  <2>2. QED
    BY <1>5, <2>1, BodyOfLoop
<1> HIDE DEF body
<1>7. l.blocks \ {l.header} = body
  BY <1>2, <1>6 DEF IsBody
<1>8. QED
  BY <1>2, <1>3, <1>4, <1>5, <1>6, <1>7 DEF IsBody

-----------------------------------------------------------------------------
(* The edges of a function.                                                *)

LEMMA SuccessorsAreOwn ==
    ASSUME NEW f, NEW b
    PROVE  Successors(f, b) \subseteq In(f)
<1>1. BranchTarget(f, b) \subseteq In(f)
  BY DEF BranchTarget, In, ToSet
<1>2. Fallthrough(f, b) \subseteq In(f)
  BY DEF Fallthrough, In, ToSet
<1>3. QED
  BY <1>1, <1>2 DEF Successors

LEMMA FunctionsOfCode ==
    ASSUME FlowTypes, NEW n \in DOMAIN code.functions
    PROVE  /\ IsFiniteSet(Blocks)
           /\ In(code.functions[n]) \subseteq Blocks
           /\ Entry(code.functions[n]) \in In(code.functions[n])
<1>1. code \in Codes
  BY DEF FlowTypes, NoCode
<1> DEFINE f == code.functions[n]
<1>2. /\ IsFiniteSet(Blocks)
      /\ f.blocks \in Seq(Blocks) /\ f.blocks # << >>
      /\ f.entry \in {0} \cup In(f)
  BY <1>1, CodesAssumption DEF Blocks
<1> HIDE DEF f
<1>3. In(f) \subseteq Blocks
  BY <1>2 DEF In, ToSet
<1>4. f.blocks[1] \in In(f)
  <2>1. 1 \in DOMAIN f.blocks
    BY <1>2
  <2>2. QED
    BY <2>1 DEF In, ToSet
<1>5. Entry(f) \in In(f)
  BY <1>2, <1>4 DEF Entry
<1>6. QED
  BY <1>2, <1>3, <1>5 DEF f

LEMMA OwnIsEdged ==
    ASSUME FlowInv, NEW f \in Own
    PROVE  Edged(f)
<1>1. PICK n \in DOMAIN built : built[n] /\ f = code.functions[n]
  BY DEF Own
<1>2. n \in DOMAIN code.functions
  BY DEF FlowInv, FlowTypes
<1>3. /\ IsFiniteSet(Blocks) /\ In(f) \subseteq Blocks /\ Entry(f) \in In(f)
  BY <1>1, <1>2, FunctionsOfCode DEF FlowInv
<1>4. \A b \in In(f) : /\ succs[b] = Successors(f, b)
                       /\ preds[b] = {p \in In(f) : b \in Successors(f, p)}
  BY DEF FlowInv, EdgesInv
<1>5. \A b \in In(f) : /\ succs[b] \subseteq In(f)
                       /\ preds[b] = {p \in In(f) : b \in succs[p]}
  BY <1>4, SuccessorsAreOwn
<1>6. QED
  BY <1>3, <1>5 DEF Edged, FlowInv, FlowTypes

LEMMA ReachedAreOwn ==
    ASSUME NEW f, Edged(f)
    PROVE  Reached(f) \subseteq In(f)
<1> DEFINE next == [b \in Blocks |-> succs[b] \ {}]
<1>1. IsLeast(Reached(f), {Entry(f)} \ {}, next)
  BY ReachedIsLeast DEF Reached, Edged
<1>2. {Entry(f)} \ {} \subseteq In(f) /\ IsClosed(In(f), next)
  BY DEF Edged, IsClosed
<1> HIDE DEF next
<1>3. QED
  BY <1>1, <1>2, Zenon DEF IsLeast

-----------------------------------------------------------------------------
(* A function that is built has its edges, whatever is built after it.     *)

LEMMA FlowInitially == FlowInit => FlowInv
<1> SUFFICES ASSUME FlowInit PROVE FlowInv
  OBVIOUS
<1>1. FlowTypes
  BY DEF FlowInit, FlowTypes
<1>2. EdgesInv
  BY DEF FlowInit, EdgesInv, Own
<1>3. QED
  BY <1>1, <1>2 DEF FlowInv

LEMMA DisassembledKeeps ==
    ASSUME FlowInv, NEW c \in Codes, Disassembled(c)
    PROVE  FlowInv'
<1>1. FlowTypes'
  BY DEF Disassembled, FlowTypes, Blocks
<1>2. EdgesInv'
  BY DEF Disassembled, EdgesInv, Own
<1>3. QED
  BY <1>1, <1>2 DEF FlowInv

LEMMA BuildEdgesKeeps ==
    ASSUME FlowInv, NEW n \in DOMAIN code.functions, BuildEdges(n)
    PROVE  FlowInv'
<1> PICK f : f = code.functions[n]
  OBVIOUS
<1>1. /\ code' = code /\ Blocks' = Blocks
      /\ succs' = [b \in Blocks |-> IF b \in In(f) THEN Successors(f, b) ELSE succs[b]]
      /\ preds' = [b \in Blocks |-> IF b \notin In(f) THEN preds[b]
                     ELSE {p \in In(f) : b \in Successors(f, p)}]
      /\ built' = [g \in DOMAIN built |->
                     g = n \/ (built[g] /\ In(code.functions[g]) \cap In(f) = {})]
  BY DEF BuildEdges, Blocks
<1>2. In(f) \subseteq Blocks /\ \A b : Successors(f, b) \subseteq In(f)
  BY FunctionsOfCode, SuccessorsAreOwn DEF FlowInv
<1>3. /\ code \in Codes \cup {NoCode}
      /\ succs \in [Blocks -> SUBSET Blocks] /\ preds \in [Blocks -> SUBSET Blocks]
      /\ DOMAIN built = DOMAIN code.functions
  BY DEF FlowInv, FlowTypes
<1>4. FlowTypes'
  <2>1. succs' \in [Blocks -> SUBSET Blocks]
    BY <1>1, <1>2, <1>3
  <2>2. preds' \in [Blocks -> SUBSET Blocks]
    BY <1>1, <1>2, <1>3
  <2>3. built' \in [DOMAIN code.functions -> BOOLEAN]
    BY <1>1, <1>3
  <2>4. QED
    BY <1>1, <1>3, <2>1, <2>2, <2>3 DEF FlowTypes
<1>5. ASSUME NEW g \in DOMAIN built, built'[g], NEW h, h = code.functions[g], NEW b \in In(h)
      PROVE  /\ succs'[b] = Successors(h, b)
             /\ preds'[b] = {p \in In(h) : b \in Successors(h, p)}
  <2>1. b \in Blocks
    BY <1>3, <1>5, FunctionsOfCode DEF FlowInv
  <2>2. CASE b \in In(f)
    <3>1. g = n
      BY <1>1, <1>5, <2>2
    <3>2. QED
      BY <1>1, <1>5, <2>1, <2>2, <3>1
  <2>3. CASE b \notin In(f)
    <3>1. g # n /\ built[g]
      BY <1>1, <1>5, <2>3
    <3>2. /\ succs[b] = Successors(h, b)
          /\ preds[b] = {p \in In(h) : b \in Successors(h, p)}
      BY <1>5, <3>1 DEF FlowInv, EdgesInv, Own
    <3>3. QED
      BY <1>1, <2>1, <2>3, <3>2
  <2>4. QED
    BY <2>2, <2>3
<1>6. EdgesInv'
  <2>1. ASSUME NEW h, NEW b PROVE Successors(h, b)' = Successors(h, b)
    BY <1>1 DEF Successors, BranchTarget, Fallthrough
  <2> SUFFICES ASSUME NEW h \in Own', NEW b \in In(h)
               PROVE  /\ succs'[b] = Successors(h, b)'
                      /\ preds'[b] = {p \in In(h) : b \in Successors(h, p)'}
    BY DEF EdgesInv
  <2>2. PICK g \in DOMAIN built : built'[g] /\ h = code.functions[g]
    BY <1>1 DEF Own
  <2>3. QED
    BY <1>5, <2>1, <2>2
<1>7. QED
  BY <1>4, <1>6 DEF FlowInv

LEMMA FlowKeeps ==
    ASSUME FlowInv, [Next]_vars
    PROVE  FlowInv'
<1>1. CASE UNCHANGED flowVars
  <2>1. FlowTypes'
    BY <1>1 DEF flowVars, FlowInv, FlowTypes, Blocks
  <2>2. EdgesInv'
    <3>1. /\ code' = code /\ Own' = Own
          /\ succs' = succs /\ preds' = preds
      BY <1>1 DEF flowVars, Own
    <3>2. ASSUME NEW h, NEW b PROVE Successors(h, b)' = Successors(h, b)
      BY <3>1 DEF Successors, BranchTarget, Fallthrough
    <3>3. QED
      BY <3>1, <3>2 DEF FlowInv, EdgesInv
  <2>3. QED
    BY <2>1, <2>2 DEF FlowInv
<1>2. CASE FlowNext
  BY <1>2, DisassembledKeeps, BuildEdgesKeeps DEF FlowNext
<1>3. QED
  BY <1>1, <1>2 DEF Next, vars

(* A built function has the edges that its blocks call for, and only      *)
(* these, until one that shares a block with it is built: CFGBuilder::    *)
(* build, whichever functions it is called with and how often.            *)
THEOREM FlowInductive == Spec => []FlowInv
<1>1. Init => FlowInv
  BY FlowInitially DEF Init
<1>2. FlowInv /\ [Next]_vars => FlowInv'
  BY FlowKeeps
<1>3. QED
  BY <1>1, <1>2, PTL DEF Spec

(* DominatorAnalysis::compute gives a block of a built function exactly   *)
(* the blocks that every path to it from the entry goes through.          *)
THEOREM DominatorsSound == Spec => []DominatorsAreOnEveryPath
<1>1. FlowInv => DominatorsAreOnEveryPath
  <2> SUFFICES ASSUME FlowInv, NEW f \in Own, NEW b \in Reached(f)
               PROVE  Dominators(f)[b] = {d \in In(f) : Dominates(f, d, b)}
    BY DEF DominatorsAreOnEveryPath
  <2>1. Edged(f)
    BY OwnIsEdged
  <2>2. b \in In(f)
    BY <2>1, ReachedAreOwn
  <2>3. QED
    BY <2>1, <2>2, DominatorsAreAvoided
<1>2. QED
  BY <1>1, FlowInductive, PTL

(* Every loop that LoopDetection reports in a built function is a natural *)
(* one, with the blocks of its body and no others that lead out of it.    *)
THEOREM LoopsSound == Spec => []LoopsAreNatural
<1>1. FlowInv => LoopsAreNatural
  <2> SUFFICES ASSUME FlowInv, NEW f \in Own, NEW l \in Loops(f)
               PROVE  /\ Dominates(f, l.header, l.source)
                      /\ \A b \in l.blocks :
                            /\ Dominates(f, l.header, b)
                            /\ b # l.header =>
                                 l.source \in ReachedFrom(b, Blocks \ (l.blocks \ {l.header}))
    BY DEF LoopsAreNatural
  <2>1. Edged(f)
    BY OwnIsEdged
  <2>2. QED
    BY <2>1, LoopIsNatural
<1>2. QED
  BY <1>1, FlowInductive, PTL

-----------------------------------------------------------------------------
(* Least and greatest places.                                              *)

LEMMA MinIsLeast ==
    ASSUME NEW T \in SUBSET Nat, T # {}
    PROVE  Min(T) \in T /\ \A n \in T : Min(T) <= n
<1>1. \E m \in T : \A n \in T : m <= n
  BY LeastNumber
<1>2. QED
  BY <1>1 DEF Min

LEMMA MaxIsGreatest ==
    ASSUME NEW N \in Nat, NEW T \in SUBSET (1 .. N), T # {}
    PROVE  Max(T) \in T /\ \A n \in T : n <= Max(T)
<1> DEFINE U == {N - n : n \in T}
<1>1. U \in SUBSET Nat /\ U # {}
  <2>1. ASSUME NEW n \in T PROVE N - n \in Nat
    OBVIOUS
  <2>2. QED
    BY <2>1
<1>2. PICK u \in U : \A w \in U : u <= w
  <2> HIDE DEF U
  <2>1. QED
    BY <1>1, LeastNumber
<1>3. PICK m \in T : u = N - m
  BY <1>2
<1>4. ASSUME NEW n \in T PROVE n <= m
  <2>1. N - m <= N - n
    BY <1>2, <1>3
  <2>2. QED
    BY <2>1
<1>5. \E m2 \in T : \A n \in T : m2 >= n
  BY <1>4
<1>6. Max(T) \in T /\ \A n \in T : Max(T) >= n
  <2> HIDE DEF U
  <2>1. QED
    BY <1>5 DEF Max
<1>7. QED
  BY <1>6

-----------------------------------------------------------------------------
(* What a variable is told, and what it settles to.                        *)

(* One more entry in a log.                                                *)
Longer(log, c, longer) ==
    /\ Len(log) \in Nat
    /\ \A kind : /\ Those(log, kind) \in SUBSET (1 .. Len(log))
                 /\ Those(longer, kind) = Those(log, kind)
                                          \cup {i \in {Len(log) + 1} : c.kind = kind}
    /\ \A i \in 1 .. Len(log) : longer[i] = log[i]
    /\ longer[Len(log) + 1] = c

LEMMA OneMore ==
    ASSUME NEW log \in Seq(Told), NEW c \in Told
    PROVE  Longer(log, c, Append(log, c))
<1> DEFINE n == Len(log)
           longer == Append(log, c)
<1>1. /\ n \in Nat /\ DOMAIN log = 1 .. n /\ DOMAIN longer = 1 .. n + 1
      /\ \A i \in 1 .. n : longer[i] = log[i]
      /\ longer[n + 1] = c
  OBVIOUS
<1> HIDE DEF n, longer
<1>2. ASSUME NEW kind
      PROVE  /\ Those(log, kind) \in SUBSET (1 .. n)
             /\ Those(longer, kind) = Those(log, kind) \cup {i \in {n + 1} : c.kind = kind}
  <2>1. 1 .. n + 1 = (1 .. n) \cup {n + 1} /\ n + 1 \notin 1 .. n
    BY <1>1
  <2>2. QED
    BY <1>1, <2>1 DEF Those
<1>3. QED
  BY <1>1, <1>2 DEF Longer, n, longer

LEMMA LeastStays ==
    ASSUME NEW n, NEW T, NEW U,
           n \in Nat, T \in SUBSET (1 .. n), U = T \/ U = T \cup {n + 1}
    PROVE  /\ T # {} => Min(U) = Min(T)
           /\ T = {} /\ U # {} => Min(U) = n + 1
<1>1. T \in SUBSET Nat /\ U \in SUBSET Nat
  <2>1. ASSUME NEW k \in T PROVE k \in Nat
    OBVIOUS
  <2>2. n + 1 \in Nat
    OBVIOUS
  <2>3. QED
    BY <2>1, <2>2
<1>2. ASSUME T # {} PROVE Min(U) = Min(T)
  <2>1. Min(T) \in T /\ \A k \in T : Min(T) <= k
    BY <1>1, <1>2, MinIsLeast
  <2>2. Min(U) \in U /\ \A k \in U : Min(U) <= k
    BY <1>1, <1>2, MinIsLeast
  <2>3. Min(U) <= Min(T) /\ Min(T) \in 1 .. n
    BY <2>1, <2>2
  <2>4. Min(U) \in T
    BY <2>2, <2>3
  <2>5. Min(T) <= Min(U)
    BY <2>1, <2>4
  <2>6. Min(U) \in Nat /\ Min(T) \in Nat
    BY <1>1, <2>1, <2>4, Zenon
  <2> DEFINE a == Min(U)
             b == Min(T)
  <2>7. a \in Nat /\ b \in Nat /\ a <= b /\ b <= a
    BY <2>3, <2>5, <2>6
  <2> HIDE DEF a, b
  <2>8. a = b
    BY <2>7
  <2>9. QED
    BY <2>8 DEF a, b
<1>3. ASSUME T = {}, U # {} PROVE Min(U) = n + 1
  <2>1. U = {n + 1}
    BY <1>3
  <2>2. QED
    BY <1>1, <2>1, MinIsLeast
<1>4. QED
  BY <1>2, <1>3

LEMMA NothingTold == Follows(NewVariable, << >>)
<1>1. /\ NewVariable.constraints = << >> /\ NewVariable.inferred = "Unknown"
      /\ NewVariable.final = FALSE
  BY DEF NewVariable
<1>2. \A kind : Those(<< >>, kind) = {}
  BY DEF Those
<1>3. QED
  BY <1>1, <1>2 DEF Follows, MustBe, Evidence

(* A constraint is not looked at until there is a solve.                   *)
LEMMA ConstraintFollows ==
    ASSUME NEW v \in Variable, NEW log \in Seq(Told), Follows(v, log),
           NEW c \in Told, c.kind \in {"MustBe", "SameAs"}
    PROVE  Follows([v EXCEPT !.constraints = Append(@, c)], Append(log, c))
<1> DEFINE w == [v EXCEPT !.constraints = Append(@, c)]
           longer == Append(log, c)
           n == Len(log)
           must == Those(log, "MustBe")
           more == Those(longer, "MustBe")
<1>1. /\ w.constraints = Append(v.constraints, c) /\ w.inferred = v.inferred
      /\ w.final = v.final /\ v.constraints \in Seq(Told)
  BY DEF Variable
<1>2. Longer(log, c, longer)
  BY OneMore
<1>3. Longer(v.constraints, c, w.constraints)
  BY <1>1, OneMore
<1> HIDE DEF w, longer
<1>4. /\ n \in Nat /\ must \in SUBSET (1 .. n)
      /\ Those(longer, "Concrete") = Those(log, "Concrete")
      /\ Those(longer, "Solve") = Those(log, "Solve")
      /\ Those(log, "Solve") \in SUBSET (1 .. n)
      /\ Those(log, "Concrete") \in SUBSET (1 .. n)
      /\ more = must \cup {i \in {n + 1} : c.kind = "MustBe"}
      /\ \A i \in 1 .. n : longer[i] = log[i]
      /\ longer[n + 1] = c
  BY <1>2 DEF Longer
<1>5. /\ must # {} => Min(more) = Min(must) /\ Min(must) \in 1 .. n
      /\ must = {} /\ more # {} => Min(more) = n + 1
  <2>1. more = must \/ more = must \cup {n + 1}
    BY <1>4
  <2>2. must # {} => Min(must) \in must
    <3>1. must \in SUBSET Nat
      BY <1>4
    <3>2. QED
      BY <3>1, MinIsLeast
  <2> HIDE DEF must, more, n
  <2>3. QED
    BY <1>4, <2>1, <2>2, LeastStays
<1>6. Those(log, "Concrete") # {} => Max(Those(log, "Concrete")) \in 1 .. n
  BY <1>4, MaxIsGreatest
<1> HIDE DEF n
<1>7. (more # {} /\ \E i \in Those(longer, "Solve") : i > Min(more))
        <=> (must # {} /\ \E i \in Those(log, "Solve") : i > Min(must))
  <2>1. CASE must # {}
    BY <1>4, <1>5, <2>1
  <2>2. CASE must = {}
    BY <1>4, <1>5, <2>2
  <2>3. QED
    BY <2>1, <2>2
<1>8. Evidence(longer) = Evidence(log)
  <2>1. CASE Those(log, "Concrete") # {}
    BY <1>4, <1>6, <2>1 DEF Evidence
  <2>2. CASE Those(log, "Concrete") = {}
    <3>1. CASE must # {} /\ \E i \in Those(log, "Solve") : i > Min(must)
      <4>1. longer[Min(more)] = log[Min(must)]
        BY <1>4, <1>5, <3>1
      <4>2. QED
        BY <1>4, <1>7, <2>2, <3>1, <4>1 DEF Evidence
    <3>2. CASE ~(must # {} /\ \E i \in Those(log, "Solve") : i > Min(must))
      BY <1>4, <1>7, <2>2, <3>2 DEF Evidence
    <3>3. QED
      BY <3>1, <3>2
  <2>3. QED
    BY <2>1, <2>2
<1> DEFINE k == Len(v.constraints)
           had == MustBe(v)
           has == MustBe(w)
<1>9. /\ k \in Nat /\ had \in SUBSET (1 .. k)
      /\ has = had \cup {i \in {k + 1} : c.kind = "MustBe"}
      /\ \A i \in 1 .. k : w.constraints[i] = v.constraints[i]
      /\ w.constraints[k + 1] = c
  BY <1>3 DEF Longer, MustBe
<1>10. /\ had # {} => Min(has) = Min(had) /\ Min(had) \in 1 .. k
       /\ had = {} /\ has # {} => Min(has) = k + 1
  <2>1. has = had \/ has = had \cup {k + 1}
    BY <1>9
  <2>2. had # {} => Min(had) \in had
    <3>1. had \in SUBSET Nat
      BY <1>9
    <3>2. QED
      BY <3>1, MinIsLeast
  <2> HIDE DEF had, has, k
  <2>3. QED
    BY <1>9, <2>1, <2>2, LeastStays
<1> HIDE DEF k
<1>11. /\ had = {} <=> must = {}
       /\ must # {} => v.constraints[Min(had)] = log[Min(must)]
       /\ v.inferred = Evidence(log)
       /\ v.final <=> \/ Those(log, "Concrete") # {}
                      \/ must # {} /\ \E i \in Those(log, "Solve") : i > Min(must)
  BY DEF Follows
<1>12. has = {} <=> more = {}
  BY <1>4, <1>9, <1>11
<1>13. ASSUME more # {} PROVE w.constraints[Min(has)] = longer[Min(more)]
  <2>1. CASE must # {}
    BY <1>4, <1>5, <1>9, <1>10, <1>11, <2>1
  <2>2. CASE must = {}
    BY <1>4, <1>5, <1>9, <1>10, <1>11, <1>12, <1>13, <2>2
  <2>3. QED
    BY <2>1, <2>2
<1>14. w.final <=> \/ Those(longer, "Concrete") # {}
                   \/ more # {} /\ \E i \in Those(longer, "Solve") : i > Min(more)
  BY <1>1, <1>4, <1>7, <1>11, Zenon
<1>15. w.inferred = Evidence(longer)
  BY <1>1, <1>8, <1>11
<1>16. Follows(w, longer)
  BY <1>12, <1>13, <1>14, <1>15 DEF Follows
<1>17. QED
  BY <1>16 DEF w, longer

(* A type that is set is the type, whatever was told before.               *)
LEMMA ConcreteFollows ==
    ASSUME NEW v \in Variable, NEW log \in Seq(Told), Follows(v, log), NEW type \in TypesOf
    PROVE  Follows([v EXCEPT !.inferred = type, !.final = TRUE],
                   Append(log, Constraint("Concrete", type)))
<1> DEFINE c == Constraint("Concrete", type)
           w == [v EXCEPT !.inferred = type, !.final = TRUE]
           longer == Append(log, c)
           n == Len(log)
<1>1. /\ w.constraints = v.constraints /\ w.inferred = type /\ w.final = TRUE
      /\ MustBe(w) = MustBe(v)
  BY DEF Variable, MustBe
<1>2. c \in Told /\ c.kind = "Concrete" /\ c.base = type
  BY DEF Told, Constraint
<1> HIDE DEF c
<1>3. Longer(log, c, longer)
  BY <1>2, OneMore
<1> HIDE DEF w, longer
<1>4. /\ n \in Nat
      /\ Those(longer, "MustBe") = Those(log, "MustBe")
      /\ Those(log, "MustBe") \in SUBSET (1 .. n)
      /\ Those(log, "Concrete") \in SUBSET (1 .. n)
      /\ Those(longer, "Concrete") = Those(log, "Concrete") \cup {n + 1}
      /\ \A i \in 1 .. n : longer[i] = log[i]
      /\ longer[n + 1] = c
  <2>1. {i \in {n + 1} : c.kind = "Concrete"} = {n + 1} /\ {i \in {n + 1} : c.kind = "MustBe"} = {}
    BY <1>2
  <2> HIDE DEF n
  <2>2. QED
    BY <1>3, <2>1 DEF Longer, n
<1>5. Max(Those(longer, "Concrete")) = n + 1
  <2> DEFINE T == Those(longer, "Concrete")
  <2>1. T \in SUBSET (1 .. n + 1) /\ n + 1 \in T
    BY <1>4
  <2>2. Max(T) \in T /\ n + 1 <= Max(T)
    <3> HIDE DEF T, n
    <3>1. n + 1 \in Nat /\ T # {}
      BY <1>4, <2>1
    <3>2. Max(T) \in T /\ \A i \in T : i <= Max(T)
      BY <2>1, <3>1, MaxIsGreatest
    <3>3. QED
      BY <2>1, <3>2
  <2>3. QED
    BY <1>4, <2>1, <2>2
<1>6. Evidence(longer) = type
  BY <1>2, <1>4, <1>5 DEF Evidence
<1>7. ASSUME Those(longer, "MustBe") # {}
      PROVE  w.constraints[Min(MustBe(w))] = longer[Min(Those(longer, "MustBe"))]
  <2>1. Those(log, "MustBe") \in SUBSET Nat
    BY <1>4
  <2>2. Min(Those(log, "MustBe")) \in Those(log, "MustBe")
    BY <1>4, <1>7, <2>1, MinIsLeast
  <2>3. v.constraints[Min(MustBe(v))] = log[Min(Those(log, "MustBe"))]
    BY <1>4, <1>7 DEF Follows
  <2>4. QED
    BY <1>1, <1>4, <2>2, <2>3
<1>8. MustBe(w) = {} <=> Those(longer, "MustBe") = {}
  BY <1>1, <1>4 DEF Follows
<1>9. Those(longer, "Concrete") # {}
  BY <1>4
<1>10. Follows(w, longer)
  BY <1>1, <1>6, <1>7, <1>8, <1>9 DEF Follows
<1>11. QED
  BY <1>10 DEF w, longer, c

(* A solve settles a variable by the first constraint it was told, unless  *)
(* it is final already.                                                    *)
LEMMA SolveFollows ==
    ASSUME NEW v \in Variable, NEW log \in Seq(Told), Follows(v, log)
    PROVE  Follows(Settled(v), Append(log, Constraint("Solve", "Unknown")))
<1> DEFINE c == Constraint("Solve", "Unknown")
           w == Settled(v)
           longer == Append(log, c)
           n == Len(log)
           must == Those(log, "MustBe")
<1>1. /\ w.constraints = v.constraints /\ MustBe(w) = MustBe(v)
      /\ v.final \/ MustBe(v) = {} => w = v
      /\ ~v.final /\ MustBe(v) # {} =>
            w.inferred = v.constraints[Min(MustBe(v))].base /\ w.final = TRUE
  BY DEF Settled, Variable, MustBe
<1>2. c \in Told /\ c.kind = "Solve"
  BY DEF Told, Constraint, TypesOf
<1> HIDE DEF c
<1>3. Longer(log, c, longer)
  BY <1>2, OneMore
<1> HIDE DEF w, longer
<1>4. /\ n \in Nat
      /\ Those(longer, "MustBe") = must
      /\ must \in SUBSET (1 .. n)
      /\ Those(log, "Concrete") \in SUBSET (1 .. n)
      /\ Those(longer, "Concrete") = Those(log, "Concrete")
      /\ Those(longer, "Solve") = Those(log, "Solve") \cup {n + 1}
      /\ \A i \in 1 .. n : longer[i] = log[i]
  <2>1. /\ {i \in {n + 1} : c.kind = "Solve"} = {n + 1}
        /\ {i \in {n + 1} : c.kind = "MustBe"} = {}
        /\ {i \in {n + 1} : c.kind = "Concrete"} = {}
    BY <1>2
  <2> HIDE DEF n
  <2>2. QED
    BY <1>3, <2>1 DEF Longer, n
<1>5. must # {} => Min(must) \in 1 .. n /\ n + 1 > Min(must)
  <2>1. must \in SUBSET Nat
    BY <1>4
  <2>2. must # {} => Min(must) \in must
    BY <2>1, MinIsLeast
  <2>3. must # {} => Min(must) \in 1 .. n
    BY <1>4, <2>2, Zenon
  <2> DEFINE m == Min(must)
  <2> HIDE DEF m, must, n
  <2>4. must # {} => m \in 1 .. n /\ n + 1 > m
    BY <1>4, <2>3 DEF m
  <2>5. QED
    BY <2>4, Zenon DEF m
<1>6. Those(log, "Concrete") # {} => Max(Those(log, "Concrete")) \in 1 .. n
  BY <1>4, MaxIsGreatest
<1> HIDE DEF n
<1>7. /\ MustBe(v) = {} <=> must = {}
      /\ must # {} => v.constraints[Min(MustBe(v))] = log[Min(must)]
      /\ v.inferred = Evidence(log)
      /\ v.final <=> \/ Those(log, "Concrete") # {}
                     \/ must # {} /\ \E i \in Those(log, "Solve") : i > Min(must)
  BY DEF Follows
<1>8. MustBe(w) = {} <=> Those(longer, "MustBe") = {}
  BY <1>1, <1>4, <1>7
<1>9. Those(longer, "MustBe") # {} =>
        w.constraints[Min(MustBe(w))] = longer[Min(Those(longer, "MustBe"))]
  BY <1>1, <1>4, <1>5, <1>7
<1>10. must # {} => \E i \in Those(longer, "Solve") : i > Min(must)
  BY <1>4, <1>5
<1>11. w.final <=> \/ Those(longer, "Concrete") # {}
                   \/ /\ Those(longer, "MustBe") # {}
                      /\ \E i \in Those(longer, "Solve") : i > Min(Those(longer, "MustBe"))
  <2>1. v.final \in BOOLEAN
    BY DEF Variable
  <2>2. CASE must = {}
    <3>1. w = v
      BY <1>1, <1>7, <2>2
    <3>2. QED
      BY <1>4, <1>7, <2>2, <3>1, Zenon
  <2>3. CASE must # {}
    <3>1. w.final
      <4>1. CASE v.final
        BY <1>1, <4>1, Zenon
      <4>2. CASE ~v.final
        BY <1>1, <1>7, <2>3, <4>2, Zenon
      <4>3. QED
        BY <4>1, <4>2
    <3>2. QED
      BY <1>4, <1>10, <2>3, <3>1, Zenon
  <2>4. QED
    BY <2>2, <2>3
<1>12. w.inferred = Evidence(longer)
  <2>1. CASE Those(log, "Concrete") # {}
    <3>1. w = v
      BY <1>1, <1>7, <2>1, Zenon
    <3>2. longer[Max(Those(log, "Concrete"))] = log[Max(Those(log, "Concrete"))]
      BY <1>4, <1>6, <2>1
    <3>3. Evidence(longer) = Evidence(log)
      BY <1>4, <2>1, <3>2 DEF Evidence
    <3>4. QED
      BY <1>7, <3>1, <3>3
  <2>2. CASE Those(log, "Concrete") = {} /\ must = {}
    <3>1. w = v
      BY <1>1, <1>7, <2>2
    <3>2. Evidence(longer) = Evidence(log)
      BY <1>4, <2>2 DEF Evidence
    <3>3. QED
      BY <1>7, <3>1, <3>2
  <2>3. CASE Those(log, "Concrete") = {} /\ must # {}
    <3>1. longer[Min(must)] = log[Min(must)]
      BY <1>4, <1>5, <2>3
    <3>2. Evidence(longer) = log[Min(must)].base
      BY <1>4, <1>10, <2>3, <3>1 DEF Evidence
    <3>3. CASE v.final
      <4>1. Evidence(log) = log[Min(must)].base
        BY <1>7, <2>3, <3>3 DEF Evidence
      <4>2. w = v
        BY <1>1, <3>3, Zenon
      <4>3. QED
        BY <1>7, <3>2, <4>1, <4>2
    <3>4. CASE ~v.final
      <4>1. w.inferred = v.constraints[Min(MustBe(v))].base
        BY <1>1, <1>7, <2>3, <3>4, Zenon
      <4>2. QED
        BY <1>7, <2>3, <3>2, <4>1
    <3>5. QED
      BY <3>3, <3>4
  <2>4. QED
    BY <2>1, <2>2, <2>3
<1>13. Follows(w, longer)
  BY <1>8, <1>9, <1>11, <1>12, Zenon DEF Follows
<1>14. QED
  BY <1>13 DEF w, longer, c

-----------------------------------------------------------------------------
(* Types: what a variable is told and what it is stay together.            *)

LEMMA TypesInitially == TypesInit => TypesInv
<1> SUFFICES ASSUME TypesInit PROVE TypesInv
  OBVIOUS
<1>1. TypesTypes
  BY DEF TypesInit, TypesTypes
<1>2. SettledInv
  BY DEF TypesInit, SettledInv
<1>3. NamesInv
  BY DEF TypesInit, NamesInv, FindByName, FindAt
<1>4. QED
  BY <1>1, <1>2, <1>3 DEF TypesInv

(* The half of the invariant that the propagation changes.                 *)
VariablesInv ==
    /\ variables \in Seq(Variable) /\ told \in Seq(Seq(Told)) /\ Len(told) = Len(variables)
    /\ SettledInv

LEMMA InitializeTypesKeeps ==
    ASSUME InitializeTypes
    PROVE  VariablesInv'
BY DEF InitializeTypes, VariablesInv, SettledInv

LEMMA AddRegisterVarKeeps ==
    ASSUME VariablesInv, AddRegisterVar
    PROVE  VariablesInv'
<1>1. NewVariable \in Variable /\ << >> \in Seq(Told)
  BY DEF NewVariable, Variable, TypesOf
<1>2. /\ variables' = Append(variables, NewVariable) /\ told' = Append(told, << >>)
      /\ variables \in Seq(Variable) /\ told \in Seq(Seq(Told)) /\ Len(told) = Len(variables)
  BY DEF VariablesInv, AddRegisterVar
<1>3. /\ variables' \in Seq(Variable) /\ told' \in Seq(Seq(Told)) /\ Len(told') = Len(variables')
  BY <1>1, <1>2
<1>4. ASSUME NEW id \in DOMAIN variables' PROVE Follows(variables'[id], told'[id])
  <2>1. CASE id \in DOMAIN variables
    <3>1. variables'[id] = variables[id] /\ told'[id] = told[id]
      BY <1>2, <2>1
    <3>2. QED
      BY <2>1, <3>1 DEF VariablesInv, SettledInv
  <2>2. CASE id \notin DOMAIN variables
    <3>1. variables'[id] = NewVariable /\ told'[id] = << >>
      BY <1>2, <2>2
    <3>2. QED
      BY <3>1, NothingTold
  <2>3. QED
    BY <2>1, <2>2
<1>5. QED
  BY <1>3, <1>4 DEF VariablesInv, SettledInv

(* A variable is told something, and becomes w; the others stay.           *)
LEMMA OneIsTold ==
    ASSUME VariablesInv, NEW id, NEW w, NEW c,
           id \in DOMAIN variables => w \in Variable /\ Follows(w, Append(told[id], c)),
           c \in Told, Tell(id, c),
           variables' = IF Has(variables, id) THEN [variables EXCEPT ![id] = w] ELSE variables
    PROVE  VariablesInv'
<1>1. variables \in Seq(Variable) /\ told \in Seq(Seq(Told)) /\ Len(told) = Len(variables)
  BY DEF VariablesInv
<1>2. DOMAIN told = DOMAIN variables
  BY <1>1
<1>3. CASE id \notin DOMAIN variables
  <2>1. variables' = variables /\ told' = told
    BY <1>2, <1>3 DEF Has, Tell
  <2>2. QED
    BY <2>1 DEF VariablesInv, SettledInv
<1>4. CASE id \in DOMAIN variables
  <2>1. /\ variables' = [variables EXCEPT ![id] = w]
        /\ told' = [told EXCEPT ![id] = Append(@, c)]
    BY <1>2, <1>4 DEF Has, Tell
  <2>2. Append(told[id], c) \in Seq(Told)
    BY <1>1, <1>2, <1>4
  <2>3. /\ variables' \in Seq(Variable) /\ told' \in Seq(Seq(Told))
        /\ Len(told') = Len(variables')
    BY <1>1, <1>2, <1>4, <2>1, <2>2
  <2>4. ASSUME NEW i \in DOMAIN variables' PROVE Follows(variables'[i], told'[i])
    <3>1. CASE i = id
      <4>1. variables'[i] = w /\ told'[i] = Append(told[id], c)
        BY <1>1, <1>2, <1>4, <2>1, <3>1
      <4>2. QED
        BY <1>4, <4>1
    <3>2. CASE i # id
      <4>1. variables'[i] = variables[i] /\ told'[i] = told[i] /\ i \in DOMAIN variables
        BY <1>1, <1>2, <2>1, <3>2
      <4>2. QED
        BY <4>1 DEF VariablesInv, SettledInv
    <3>3. QED
      BY <3>1, <3>2
  <2>5. QED
    BY <2>3, <2>4 DEF VariablesInv, SettledInv
<1>5. QED
  BY <1>3, <1>4

LEMMA AddConstraintKeeps ==
    ASSUME VariablesInv, NEW id, NEW kind \in {"MustBe", "SameAs"}, NEW base \in BaseTypes,
           AddConstraint(id, Constraint(kind, base))
    PROVE  VariablesInv'
<1> DEFINE c == Constraint(kind, base)
           w == [variables[id] EXCEPT !.constraints = Append(@, c)]
<1>1. c \in Told /\ c.kind \in {"MustBe", "SameAs"}
  BY DEF Told, Constraint, TypesOf
<1>2. /\ variables' = IF Has(variables, id)
                      THEN [variables EXCEPT ![id].constraints = Append(@, c)]
                      ELSE variables
      /\ Tell(id, c)
  BY DEF AddConstraint
<1> HIDE DEF c
<1>3. ASSUME id \in DOMAIN variables
      PROVE  w \in Variable /\ Follows(w, Append(told[id], c))
  <2>1. variables[id] \in Variable /\ told[id] \in Seq(Told) /\ Follows(variables[id], told[id])
    BY <1>3 DEF VariablesInv, SettledInv
  <2>2. w \in Variable
    <3> DEFINE more == Append(variables[id].constraints, c)
    <3>1. more \in Seq(Told)
      BY <1>1, <2>1 DEF Variable
    <3> HIDE DEF more
    <3>2. [variables[id] EXCEPT !.constraints = more] \in Variable
      BY <2>1, <3>1 DEF Variable
    <3>3. QED
      BY <3>2 DEF more
  <2>3. QED
    BY <1>1, <2>1, <2>2, ConstraintFollows
<1>4. variables' = IF Has(variables, id) THEN [variables EXCEPT ![id] = w] ELSE variables
  BY <1>2
<1> HIDE DEF w
<1>5. QED
  BY <1>1, <1>2, <1>3, <1>4, OneIsTold

LEMMA SetConcreteTypeKeeps ==
    ASSUME VariablesInv, NEW id, NEW base \in BaseTypes, SetConcreteType(id, base)
    PROVE  VariablesInv'
<1> DEFINE c == Constraint("Concrete", base)
           w == [variables[id] EXCEPT !.inferred = base, !.final = TRUE]
<1>1. c \in Told
  BY DEF Told, Constraint, TypesOf
<1>2. Tell(id, c)
  BY DEF SetConcreteType
<1>3. ASSUME id \in DOMAIN variables
      PROVE  w \in Variable /\ Follows(w, Append(told[id], c))
  <2>1. variables[id] \in Variable /\ told[id] \in Seq(Told) /\ Follows(variables[id], told[id])
    BY <1>3 DEF VariablesInv, SettledInv
  <2>2. base \in TypesOf
    BY DEF TypesOf
  <2>3. w \in Variable
    BY <2>1, <2>2 DEF Variable
  <2>4. QED
    BY <2>1, <2>2, <2>3, ConcreteFollows
<1>4. variables' = IF Has(variables, id) THEN [variables EXCEPT ![id] = w] ELSE variables
  BY DEF SetConcreteType
<1> HIDE DEF w, c
<1>5. QED
  BY <1>1, <1>2, <1>3, <1>4, OneIsTold

LEMMA SolveKeeps ==
    ASSUME VariablesInv, Solve
    PROVE  VariablesInv'
<1> DEFINE c == Constraint("Solve", "Unknown")
<1>1. c \in Told
  BY DEF Told, Constraint, TypesOf
<1>2. /\ variables' = [id \in DOMAIN variables |-> Settled(variables[id])]
      /\ told' = [id \in DOMAIN told |-> Append(told[id], c)]
      /\ variables \in Seq(Variable) /\ told \in Seq(Seq(Told)) /\ Len(told) = Len(variables)
  BY DEF VariablesInv, Solve
<1> HIDE DEF c
<1>3. DOMAIN variables = 1 .. Len(variables) /\ DOMAIN told = 1 .. Len(variables)
      /\ Len(variables) \in Nat
  BY <1>2
<1>4. ASSUME NEW id \in DOMAIN variables
      PROVE  /\ variables[id] \in Variable /\ told[id] \in Seq(Told)
             /\ Follows(variables[id], told[id])
  BY <1>2, <1>3 DEF VariablesInv, SettledInv
<1>5. ASSUME NEW id \in DOMAIN variables
      PROVE  /\ Settled(variables[id]) \in Variable
             /\ Follows(Settled(variables[id]), Append(told[id], c))
  <2>1. variables[id] \in Variable /\ told[id] \in Seq(Told) /\ Follows(variables[id], told[id])
    BY <1>4
  <2> DEFINE v == variables[id]
             m == Min(MustBe(v))
  <2>2. Settled(v) \in Variable
    <3>1. CASE v.final \/ MustBe(v) = {}
      BY <2>1, <3>1 DEF Settled
    <3>2. CASE ~v.final /\ MustBe(v) # {}
      <4>1. v.constraints \in Seq(Told)
        BY <2>1 DEF Variable
      <4>2. MustBe(v) \in SUBSET Nat /\ MustBe(v) \subseteq DOMAIN v.constraints
        BY <4>1 DEF MustBe, Those
      <4>3. m \in MustBe(v)
        BY <3>2, <4>2, MinIsLeast
      <4>4. v.constraints[m].base \in TypesOf
        <5>1. m \in DOMAIN v.constraints
          BY <4>2, <4>3
        <5> HIDE DEF m, v
        <5>2. v.constraints[m] \in Told
          BY <4>1, <5>1
        <5>3. QED
          BY <5>2 DEF Told
      <4> HIDE DEF m, v
      <4>5. [v EXCEPT !.inferred = v.constraints[m].base, !.final = TRUE] \in Variable
        BY <2>1, <4>4 DEF Variable, v
      <4>6. QED
        BY <3>2, <4>5 DEF Settled, m
    <3>3. QED
      BY <3>1, <3>2
  <2>3. QED
    BY <2>1, <2>2, SolveFollows DEF c
<1>6. variables' \in Seq(Variable) /\ Len(variables') = Len(variables)
  BY <1>2, <1>3, <1>5
<1>7. told' \in Seq(Seq(Told)) /\ Len(told') = Len(variables)
  <2>1. ASSUME NEW id \in DOMAIN told PROVE Append(told[id], c) \in Seq(Told)
    BY <1>1, <1>3, <1>4
  <2>2. QED
    BY <1>2, <1>3, <2>1
<1>8. ASSUME NEW id \in DOMAIN variables' PROVE Follows(variables'[id], told'[id])
  <2>1. id \in DOMAIN variables /\ id \in DOMAIN told
    BY <1>2, <1>3
  <2>2. variables'[id] = Settled(variables[id]) /\ told'[id] = Append(told[id], c)
    BY <1>2, <2>1
  <2>3. QED
    BY <1>5, <2>1, <2>2
<1>9. QED
  BY <1>6, <1>7, <1>8 DEF VariablesInv, SettledInv

(* The half that the names change: the last that is given a name has the   *)
(* greatest identifier, as none is taken back but all together.            *)
LEMMA AddTypeKeeps ==
    ASSUME types \in Seq([name : TypeNames, kind : {"Struct", "Void", "Enum"}]), NamesInv,
           NEW name \in TypeNames, NEW kind \in {"Struct", "Void", "Enum"}, AddType(name, kind)
    PROVE  types' \in Seq([name : TypeNames, kind : {"Struct", "Void", "Enum"}]) /\ NamesInv'
<1> DEFINE new == [name |-> name, kind |-> kind]
           n == Len(types) + 1
           its(m) == {id \in DOMAIN types : types[id].name = m}
<1>1. types' = Append(types, new) /\ nameToId' = Bind(nameToId, name, n)
  BY DEF AddType
<1>2. types' \in Seq([name : TypeNames, kind : {"Struct", "Void", "Enum"}])
  BY <1>1
<1>3. /\ n \in Nat \ {0} /\ DOMAIN types = 1 .. n - 1 /\ DOMAIN types' = 1 .. n
      /\ \A id \in 1 .. n - 1 : types'[id] = types[id]
      /\ types'[n].name = name
  BY <1>1
<1> HIDE DEF n, new
<1>4. ASSUME NEW m \in TypeNames
      PROVE  /\ FindByName(m)' \in {Invalid} \cup {id \in DOMAIN types' : types'[id].name = m}
             /\ \A id \in {k \in DOMAIN types' : types'[k].name = m} : id <= FindByName(m)'
  <2>1. CASE m = name
    <3>1. FindByName(m)' = n
      BY <1>1, <2>1 DEF FindByName, FindAt, Bind
    <3>2. QED
      BY <1>3, <2>1, <3>1
  <2>2. CASE m # name
    <3>1. FindByName(m)' = FindByName(m)
      BY <1>1, <2>2 DEF FindByName, FindAt, Bind
    <3>2. {k \in DOMAIN types' : types'[k].name = m} = its(m)
      BY <1>3, <2>2
    <3>3. QED
      BY <3>1, <3>2 DEF NamesInv
  <2>3. QED
    BY <2>1, <2>2
<1>5. QED
  BY <1>2, <1>4 DEF NamesInv

LEMMA TypesKeep ==
    ASSUME TypesInv, [Next]_vars
    PROVE  TypesInv'
<1>1. VariablesInv /\ types \in Seq([name : TypeNames, kind : {"Struct", "Void", "Enum"}])
      /\ NamesInv
  BY DEF TypesInv, TypesTypes, VariablesInv
<1>2. ASSUME UNCHANGED <<variables, told>> PROVE VariablesInv'
  BY <1>1, <1>2 DEF VariablesInv, SettledInv
<1>3. ASSUME UNCHANGED <<types, nameToId>> PROVE NamesInv'
  BY <1>1, <1>3 DEF NamesInv, FindByName
<1>4. CASE UNCHANGED typeVars
  <2>1. VariablesInv'
    BY <1>2, <1>4 DEF typeVars
  <2>2. types' = types /\ NamesInv'
    BY <1>3, <1>4 DEF typeVars
  <2>3. QED
    BY <1>1, <2>1, <2>2 DEF TypesInv, TypesTypes, VariablesInv
<1>5. CASE PropagationNext
  <2>1. VariablesInv'
    <3>1. CASE InitializeTypes
      BY <3>1, InitializeTypesKeeps
    <3>2. CASE AddRegisterVar
      BY <1>1, <3>2, AddRegisterVarKeeps
    <3>3. CASE \E id \in 0 .. MaxVariables, kind \in {"MustBe", "SameAs"}, base \in BaseTypes :
                  AddConstraint(id, Constraint(kind, base))
      BY <1>1, <3>3, AddConstraintKeeps
    <3>4. CASE \E id \in 0 .. MaxVariables, base \in BaseTypes : SetConcreteType(id, base)
      BY <1>1, <3>4, SetConcreteTypeKeeps
    <3>5. CASE Solve
      BY <1>1, <3>5, SolveKeeps
    <3>6. CASE AnalyzeStackFrame
      BY <1>2, <3>6 DEF AnalyzeStackFrame
    <3>7. QED
      BY <1>5, <3>1, <3>2, <3>3, <3>4, <3>5, <3>6, Zenon DEF PropagationNext
  <2>2. UNCHANGED <<types, nameToId>>
    BY <1>5 DEF PropagationNext, InitializeTypes, AddRegisterVar, AddConstraint,
                SetConcreteType, Solve, AnalyzeStackFrame
  <2>3. QED
    BY <1>1, <1>3, <2>1, <2>2 DEF TypesInv, TypesTypes, VariablesInv
<1>6. CASE NamesNext
  <2>1. types' \in Seq([name : TypeNames, kind : {"Struct", "Void", "Enum"}]) /\ NamesInv'
    <3>1. CASE LoadBuiltins
      BY <3>1 DEF LoadBuiltins, NamesInv, FindByName, FindAt
    <3>2. ASSUME NEW name \in TypeNames, NEW kind \in {"Struct", "Void", "Enum"},
                 AddType(name, kind)
          PROVE  types' \in Seq([name : TypeNames, kind : {"Struct", "Void", "Enum"}]) /\ NamesInv'
      BY <1>1, <3>2, AddTypeKeeps
    <3>3. QED
      BY <1>6, <3>1, <3>2 DEF NamesNext, AddStruct, AddTypedef, AddEnum
  <2>2. UNCHANGED <<variables, told>>
    BY <1>6 DEF NamesNext, LoadBuiltins, AddStruct, AddTypedef, AddEnum, AddType
  <2>3. QED
    BY <1>1, <1>2, <2>1, <2>2 DEF TypesInv, TypesTypes, VariablesInv
<1>7. QED
  BY <1>4, <1>5, <1>6 DEF Next, vars

(* No two parameters of a call on Windows are in the same place, and none  *)
(* of one kind on the others.                                              *)
Distinct(regs) ==
    /\ Len(regs) \in Nat
    /\ \A a, b \in 1 .. Len(regs) : a # b => regs[a] # regs[b]

LEMMA OfOneKind ==
    ASSUME NEW cc, NEW f, NEW i \in 0 .. 9, NEW j \in 0 .. 9, i # j,
           Distinct(Registers(cc, f)), cc.align = 8
    PROVE  ParamLocation(cc, i, f) # ParamLocation(cc, j, f)
<1> DEFINE regs == Registers(cc, f)
           n == Len(regs)
<1>1. n \in Nat /\ \A a, b \in 1 .. n : a # b => regs[a] # regs[b]
  BY DEF Distinct
<1>2. ASSUME NEW k \in 0 .. 9
      PROVE  ParamLocation(cc, k, f) = IF k < n THEN [kind |-> "Register", at |-> regs[k + 1]]
                                       ELSE [kind |-> "Stack", at |-> (k - n) * 8]
  BY DEF ParamLocation
<1> HIDE DEF regs, n
<1>3. CASE i < n /\ j < n
  <2>1. i + 1 \in 1 .. n /\ j + 1 \in 1 .. n /\ i + 1 # j + 1
    BY <1>1, <1>3
  <2>2. regs[i + 1] # regs[j + 1]
    BY <1>1, <2>1
  <2>3. QED
    BY <1>2, <1>3, <2>2
<1>4. CASE ~(i < n) /\ ~(j < n)
  <2>1. (i - n) * 8 # (j - n) * 8
    BY <1>1
  <2>2. QED
    BY <1>2, <1>4, <2>1
<1>5. CASE (i < n) # (j < n)
  BY <1>2, <1>5
<1>6. QED
  BY <1>3, <1>4, <1>5

LEMMA PlacesDiffer ==
    ASSUME NEW i \in 0 .. 9, NEW j \in 0 .. 9, i # j, NEW f \in BOOLEAN, NEW g \in BOOLEAN
    PROVE  /\ \/ ParamLocation(Windows, i, f) # ParamLocation(Windows, j, g)
              \/ f # g /\ ParamLocation(Windows, i, f).kind = "Register"
           /\ ParamLocation(SystemV, i, f) # ParamLocation(SystemV, j, f)
<1>1. /\ Distinct(Registers(SystemV, f)) /\ SystemV.align = 8
      /\ Distinct(Registers(Windows, f)) /\ Windows.align = 8
      /\ Len(Registers(Windows, f)) = 4 /\ Len(Registers(Windows, g)) = 4
  BY DEF Distinct, Registers, SystemV, Windows
<1>2. ParamLocation(SystemV, i, f) # ParamLocation(SystemV, j, f)
  BY <1>1, OfOneKind
<1>3. CASE f = g
  BY <1>1, <1>2, <1>3, OfOneKind
<1>4. CASE f # g
  <2>1. ASSUME NEW k \in 0 .. 9, NEW h \in {f, g}
        PROVE  /\ k < 4 => ParamLocation(Windows, k, h).kind = "Register"
               /\ ~(k < 4) => ParamLocation(Windows, k, h) = [kind |-> "Stack", at |-> (k - 4) * 8]
    <3> DEFINE regs == Registers(Windows, h)
    <3>1. Len(regs) = 4
      BY <1>1
    <3>2. ParamLocation(Windows, k, h) =
            IF k < Len(regs) THEN [kind |-> "Register", at |-> regs[k + 1]]
            ELSE [kind |-> "Stack", at |-> (k - Len(regs)) * 8]
      BY <1>1 DEF ParamLocation
    <3> HIDE DEF regs
    <3>3. QED
      BY <3>1, <3>2
  <2> DEFINE p == ParamLocation(Windows, i, f)
             q == ParamLocation(Windows, j, g)
  <2>2. /\ i < 4 => p.kind = "Register"
        /\ ~(i < 4) => p = [kind |-> "Stack", at |-> (i - 4) * 8]
        /\ j < 4 => q.kind = "Register"
        /\ ~(j < 4) => q = [kind |-> "Stack", at |-> (j - 4) * 8]
    BY <2>1
  <2> HIDE DEF p, q
  <2>3. p # q \/ p.kind = "Register"
    <3>1. CASE i < 4
      BY <2>2, <3>1
    <3>2. CASE ~(i < 4) /\ j < 4
      BY <2>2, <3>2
    <3>3. CASE ~(i < 4) /\ ~(j < 4)
      BY <2>2, <3>3
    <3>4. QED
      BY <3>1, <3>2, <3>3
  <2>4. QED
    BY <1>2, <1>4, <2>3 DEF p, q
<1>5. QED
  BY <1>2, <1>3, <1>4

(* What was told of the variables and what they are, and the names and     *)
(* their identifiers, stay together through every call of TypePropagation  *)
(* and TypeDatabase.                                                       *)
THEOREM TypesInductive == Spec => []TypesInv
<1>1. Init => TypesInv
  BY TypesInitially DEF Init
<1>2. TypesInv /\ [Next]_vars => TypesInv'
  BY TypesKeep
<1>3. QED
  BY <1>1, <1>2, PTL DEF Spec

(* In whichever order types are set, constraints added and solves made,    *)
(* get_inferred_type answers with the type there is evidence for; a name   *)
(* finds the type it was given to last; and no two parameters of a call on *)
(* Windows have the same place.                                            *)
THEOREM TypesSound == Spec => []TypesFollowEvidence
<1>1. TypesInv => TypesFollowEvidence
  <2> SUFFICES ASSUME TypesInv PROVE TypesFollowEvidence
    OBVIOUS
  <2>1. ASSUME NEW id
        PROVE  GetInferredType(id) = IF Has(told, id) THEN Evidence(told[id]) ELSE "Unknown"
    <3>1. DOMAIN told = DOMAIN variables
      BY DEF TypesInv, TypesTypes
    <3>2. QED
      BY <3>1 DEF TypesInv, SettledInv, Follows, GetInferredType, Has
  <2>2. ASSUME NEW name \in TypeNames
        PROVE  FindByName(name) = Max({Invalid} \cup {id \in DOMAIN types : types[id].name = name})
    <3> DEFINE its == {id \in DOMAIN types : types[id].name = name}
               all == {Invalid} \cup its
               found == FindByName(name)
    <3>1. found \in all /\ \A id \in its : id <= found
      BY DEF TypesInv, NamesInv
    <3>2. its \in SUBSET Nat
      BY DEF TypesInv, TypesTypes
    <3> HIDE DEF its, found
    <3>3. \A id \in all : id \in Nat /\ found >= id
      BY <3>1, <3>2 DEF Invalid
    <3>4. \E x \in all : \A y \in all : x >= y
      BY <3>1, <3>3
    <3>5. Max(all) \in all /\ \A y \in all : Max(all) >= y
      <4> HIDE DEF all
      <4>1. QED
        BY <3>4 DEF Max
    <3> DEFINE m == Max(all)
    <3>6. m \in all /\ m \in Nat /\ found \in Nat /\ m >= found /\ found >= m
      BY <3>1, <3>3, <3>5
    <3> HIDE DEF m, all
    <3>7. found = m
      BY <3>6
    <3>8. QED
      BY <3>7 DEF found, m, all, its
  <2>3. ASSUME NEW i \in 0 .. 9, NEW j \in 0 .. 9, NEW f \in BOOLEAN, NEW g \in BOOLEAN, i # j
        PROVE  LET p == ParamLocation(Windows, i, f)
                   q == ParamLocation(Windows, j, g)
               IN  /\ p # q \/ (f # g /\ p.kind = "Register")
                   /\ ParamLocation(SystemV, i, f) # ParamLocation(SystemV, j, f)
    BY <2>3, PlacesDiffer
  <2>4. QED
    BY <2>1, <2>2, <2>3 DEF TypesFollowEvidence
<1>2. QED
  BY <1>1, TypesInductive, PTL

-----------------------------------------------------------------------------
(* What a trigger makes dirty.                                             *)

LEMMA FunctionTypes ==
    ASSUME NEW f \in Functions
    PROVE  /\ f.start \in Int /\ f.end \in Int
           /\ f.blocks # << >> => f.start < f.end
BY DatabaseAssumption, Zenon

LEMMA RangeTypes ==
    ASSUME NEW range \in Ranges
    PROVE  range.start \in Int /\ range.end \in Int
BY DatabaseAssumption, Zenon

LEMMA LatestIsThere ==
    ASSUME NEW b, b.functions \in Seq(Functions), IsLatest(b.functionAt, Starts(b))
    PROVE  FoundByStart(b)
<1>1. DOMAIN b.functions = 1 .. Len(b.functions)
  BY LenProperties
<1>2. /\ DOMAIN Starts(b) = 1 .. Len(b.functions)
      /\ \A n \in 1 .. Len(b.functions) : Starts(b)[n] = b.functions[n].start
  BY DEF Starts
<1>3. ASSUME NEW a \in DOMAIN b.functionAt
      PROVE  b.functionAt[a] \in DOMAIN b.functions /\ b.functions[b.functionAt[a]].start = a
  <2>1. PICK n \in DOMAIN Starts(b) : a = Starts(b)[n]
    BY DEF IsLatest
  <2>2. b.functionAt[a] \in DOMAIN Starts(b) /\ Starts(b)[b.functionAt[a]] = a
    BY <2>1 DEF IsLatest
  <2>3. QED
    BY <1>1, <1>2, <2>2
<1>4. QED
  BY <1>3 DEF FoundByStart, Has

LEMMA LoadableIsSound ==
    ASSUME NEW b \in Loadable
    PROVE  DOMAIN b = DOMAIN EmptyBinary(0) /\ b.functions \in Seq(Functions) /\ FoundByStart(b)
<1>1. /\ DOMAIN b = DOMAIN EmptyBinary(0) /\ b.functions \in Seq(Functions)
      /\ IsLatest(b.functionAt, Starts(b))
  BY DatabaseAssumption, Zenon
<1>2. QED
  BY <1>1, LatestIsThere

LEMMA DatabaseInitially == ASSUME NEW who, NEW b, DatabaseInit(who, b),
                                  b \in Loadable \/ b = EmptyBinary(0)
                           PROVE  DatabaseInv
<1>1. DOMAIN dirty = DOMAIN Clean /\ bin = b
  BY DEF DatabaseInit
<1>2. CASE b \in Loadable
  BY <1>1, <1>2, LoadableIsSound DEF DatabaseInv
<1>3. CASE b = EmptyBinary(0)
  <2>1. b.functions = << >> /\ b.functionAt = << >>
    BY <1>3 DEF EmptyBinary
  <2>2. b.functions \in Seq(Functions)
    BY <2>1
  <2>3. FoundByStart(b)
    BY <2>1 DEF FoundByStart
  <2>4. QED
    BY <1>1, <1>3, <2>2, <2>3 DEF DatabaseInv
<1>4. QED
  BY <1>2, <1>3

LEMMA AddFunctionKeeps ==
    ASSUME DatabaseInv, NEW f \in NewFunctions, AddFunctionToBinary(f)
    PROVE  DatabaseInv'
<1> DEFINE n == Len(bin.functions) + 1
<1>1. /\ bin' = [bin EXCEPT !.functions = Append(@, f), !.functionAt = Bind(@, f.start, n)]
      /\ dirty' = dirty
  BY DEF AddFunctionToBinary, CreateFunction
<1>2. f \in Functions /\ bin.functions \in Seq(Functions)
  BY DEF DatabaseInv, Functions
<1>3. /\ DOMAIN bin' = DOMAIN EmptyBinary(0)
      /\ bin'.functions = Append(bin.functions, f)
      /\ bin'.functionAt = Bind(bin.functionAt, f.start, n)
  BY <1>1 DEF DatabaseInv, EmptyBinary
<1>4. bin'.functions \in Seq(Functions)
  BY <1>2, <1>3
<1>5. /\ n \in Nat /\ DOMAIN bin.functions = 1 .. n - 1 /\ DOMAIN bin'.functions = 1 .. n
      /\ \A k \in 1 .. n - 1 : bin'.functions[k] = bin.functions[k]
      /\ bin'.functions[n] = f
      /\ n \in 1 .. n /\ 1 .. n - 1 \subseteq 1 .. n
  BY <1>2, <1>3
<1> HIDE DEF n
<1>6. ASSUME NEW a \in DOMAIN bin'.functionAt
      PROVE  /\ bin'.functionAt[a] \in DOMAIN bin'.functions
             /\ bin'.functions[bin'.functionAt[a]].start = a
  <2>1. CASE a = f.start
    <3>1. bin'.functionAt[a] = n
      BY <1>3, <2>1 DEF Bind
    <3>2. QED
      BY <1>5, <2>1, <3>1
  <2>2. CASE a # f.start
    <3>1. a \in DOMAIN bin.functionAt /\ bin'.functionAt[a] = bin.functionAt[a]
      BY <1>3, <2>2 DEF Bind
    <3>2. /\ bin.functionAt[a] \in DOMAIN bin.functions
          /\ bin.functions[bin.functionAt[a]].start = a
      BY <3>1 DEF DatabaseInv, FoundByStart, Has
    <3>3. QED
      BY <1>5, <3>1, <3>2
  <2>3. QED
    BY <2>1, <2>2
<1>7. FoundByStart(bin)'
  BY <1>6 DEF FoundByStart, Has
<1>8. QED
  BY <1>1, <1>3, <1>4, <1>7 DEF DatabaseInv

LEMMA AddSymbolKeeps ==
    ASSUME DatabaseInv, NEW s, AddSymbolToBinary(s)
    PROVE  DatabaseInv'
<1>1. bin' = CreateSymbol(bin, s) /\ dirty' = dirty
  BY DEF AddSymbolToBinary
<1>2. /\ DOMAIN bin' = DOMAIN bin
      /\ bin'.functions = bin.functions /\ bin'.functionAt = bin.functionAt
  BY <1>1 DEF CreateSymbol, DatabaseInv
<1>3. QED
  BY <1>1, <1>2 DEF DatabaseInv, FoundByStart

LEMMA LoadBinaryKeeps ==
    ASSUME NEW b \in Loadable, LoadBinary(b)
    PROVE  DatabaseInv'
<1>1. bin' = b /\ dirty' = Clean
  BY DEF LoadBinary
<1>2. QED
  BY <1>1, LoadableIsSound DEF DatabaseInv

(* The dirty sets stay what they are through every operation of the engine.*)
LEMMA DirtyKeeps ==
    ASSUME DatabaseInv, bin' = bin, DOMAIN dirty' = DOMAIN dirty
    PROVE  DatabaseInv'
BY DEF DatabaseInv, FoundByStart, Has

LEMMA DatabaseKeeps ==
    ASSUME DatabaseInv, [Next]_vars
    PROVE  DatabaseInv'
<1>1. CASE UNCHANGED databaseVars
  BY <1>1, DirtyKeeps DEF databaseVars
<1>2. CASE DatabaseNext
  <2>1. CASE \E s \in NewSymbols : AddSymbolToBinary(s)
    BY <2>1, AddSymbolKeeps
  <2>2. CASE \E f \in NewFunctions : AddFunctionToBinary(f)
    BY <2>2, AddFunctionKeeps
  <2>3. CASE \E b \in Loadable : LoadBinary(b)
    BY <2>3, LoadBinaryKeeps
  <2>4. CASE BuildAll \/ Clear \/ \E type \in IndexedTypes : BuildOne(type) \/ ClearOne(type)
    <3>1. bin' = bin /\ dirty' = dirty
      BY <2>4 DEF BuildAll, Clear, BuildOne, ClearOne
    <3>2. QED
      BY <3>1, DirtyKeeps
  <2>5. CASE \E t \in Triggers : Trigger(t) \/ \E range \in Ranges : TriggerInRange(t, range)
    <3>1. bin' = bin /\ DOMAIN dirty' = DOMAIN dirty
      BY <2>5 DEF Trigger, TriggerInRange, InvalidateAll, InvalidateRange, Cascade
    <3>2. QED
      BY <3>1, DirtyKeeps
  <2>6. CASE \E f \in DOMAIN bin.functions : TriggerInFunction(f) \/ MarkFunctionClean(f)
    <3>1. bin' = bin /\ DOMAIN dirty' = DOMAIN dirty
      BY <2>6 DEF TriggerInFunction, MarkFunctionClean, InvalidateFunction
    <3>2. QED
      BY <3>1, DirtyKeeps
  <2>7. CASE (\E block \in DOMAIN bin.blocks : MarkBlockClean(block)) \/ MarkAllClean
    <3>1. bin' = bin /\ DOMAIN dirty' = DOMAIN dirty
      BY <2>7 DEF MarkBlockClean, MarkAllClean, DatabaseInv
    <3>2. QED
      BY <3>1, DirtyKeeps
  <2>8. QED
    BY <1>2, <2>1, <2>2, <2>3, <2>4, <2>5, <2>6, <2>7, Zenon DEF DatabaseNext
<1>3. QED
  BY <1>1, <1>2 DEF Next, vars

(* A binary finds a function at its first address, whatever is created.    *)
THEOREM DatabaseInductive == Spec => []DatabaseInv
<1>1. Init => DatabaseInv
  BY DatabaseInitially DEF Init
<1>2. DatabaseInv /\ [Next]_vars => DatabaseInv'
  BY DatabaseKeeps
<1>3. QED
  BY <1>1, <1>2, PTL DEF Spec

LEMMA TriggerReaches ==
    ASSUME DatabaseInv, NEW t \in Triggers, Trigger(t), Rule(t).cascade
    PROVE  /\ BlocksOf(bin, dirty'.functions) \subseteq dirty'.blocks
           /\ InsnsOf(bin, dirty'.blocks) \subseteq dirty'.insns
<1> DEFINE marked == IF Rule(t).full THEN DOMAIN bin.functions ELSE DependsOn(bin, Rule(t).stages)
           with == [dirty EXCEPT !.functions = @ \cup marked]
           blocks == with.blocks \cup BlocksOf(bin, with.functions)
<1>1. dirty' = Cascade(bin, with)
  BY DEF Trigger, InvalidateAll
<1>2. DOMAIN with = {"functions", "blocks", "insns"}
  BY DEF DatabaseInv, Clean
<1> HIDE DEF with
<1>3. dirty' = [with EXCEPT !.blocks = blocks, !.insns = @ \cup InsnsOf(bin, blocks)]
  BY <1>1 DEF Cascade
<1> HIDE DEF blocks
<1>4. /\ dirty'.functions = with.functions /\ dirty'.blocks = blocks
      /\ dirty'.insns = with.insns \cup InsnsOf(bin, blocks)
  BY <1>2, <1>3
<1>5. QED
  BY <1>4 DEF blocks

LEMMA RangeReaches ==
    ASSUME DatabaseInv, NEW t \in Triggers, NEW range \in Ranges, TriggerInRange(t, range),
           NEW f \in DOMAIN bin.functions,
           bin.functions[f].start < range.end, bin.functions[f].end > range.start
    PROVE  f \in dirty'.functions
<1>1. f \in AffectedFunctions(bin, range)
  BY DEF AffectedFunctions
<1> DEFINE dependent == IF Rule(t).full /\ Rule(t).stages # {}
                        THEN DependsOn(bin, Rule(t).stages) ELSE {}
<1>2. dirty' = [dirty EXCEPT !.functions = @ \cup AffectedFunctions(bin, range) \cup dependent]
  BY DEF TriggerInRange, InvalidateRange
<1>3. "functions" \in DOMAIN dirty
  BY DEF DatabaseInv, Clean
<1> HIDE DEF dependent
<1>4. QED
  BY <1>1, <1>2, <1>3

(* A function that an address resolves to holds it, unless it has no block.*)
LEMMA ResolvedHolds ==
    ASSUME DatabaseInv, NEW range \in Ranges, range.start < range.end,
           ResolveAddress(bin, range.start).insn # Invalid
    PROVE  LET f == ResolveAddress(bin, range.start).function
           IN  /\ f \in DOMAIN bin.functions
               /\ bin.functions[f].start < range.end /\ bin.functions[f].end > range.start
<1> DEFINE a == range.start
           f == FindAt(bin.functionAt, a)
<1>1. f # Invalid
  BY DEF ResolveAddress
<1>2. f \in DOMAIN bin.functions /\ bin.functions[f].start = a
  BY <1>1 DEF FindAt, DatabaseInv, FoundByStart, Has
<1>3. bin.functions[f].blocks # << >>
  <2> SUFFICES ASSUME bin.functions[f].blocks = << >> PROVE FALSE
    OBVIOUS
  <2>1. ASSUME NEW holds PROVE FirstIn(bin.functions[f].blocks, holds) = Invalid
    BY DEF FirstIn
  <2>2. QED
    BY <1>1, <2>1 DEF ResolveAddress
<1>4. bin.functions[f] \in Functions
  BY <1>2 DEF DatabaseInv
<1>5. /\ bin.functions[f].start \in Int /\ bin.functions[f].end \in Int
      /\ bin.functions[f].start < bin.functions[f].end
      /\ range.start \in Int /\ range.end \in Int
  BY <1>3, <1>4, FunctionTypes, RangeTypes
<1>6. ResolveAddress(bin, range.start).function = f
  BY DEF ResolveAddress
<1> HIDE DEF f
<1>7. QED
  BY <1>2, <1>5, <1>6

(* InvalidationEngine: after a trigger whose rule cascades no part of a    *)
(* dirty function is clean, and a range with a byte of a function, or one  *)
(* that begins at its first instruction, leaves the function dirty.        *)
THEOREM InvalidationSound == Spec => InvalidationReaches
<1>1. ASSUME DatabaseInv, [Next]_vars
      PROVE  /\ \A t \in Triggers : Trigger(t) /\ Rule(t).cascade =>
                   /\ BlocksOf(bin, dirty'.functions) \subseteq dirty'.blocks
                   /\ InsnsOf(bin, dirty'.blocks) \subseteq dirty'.insns
             /\ \A t \in Triggers, range \in Ranges : TriggerInRange(t, range) =>
                   \A f \in DOMAIN bin.functions :
                       (bin.functions[f].start .. bin.functions[f].end - 1)
                           \cap (range.start .. range.end - 1) # {} => f \in dirty'.functions
             /\ \A t \in Triggers, range \in Ranges :
                   /\ TriggerInRange(t, range)
                   /\ range.start < range.end
                   /\ ResolveAddress(bin, range.start).insn # Invalid
                   => ResolveAddress(bin, range.start).function \in dirty'.functions
  <2>1. ASSUME NEW t \in Triggers, NEW range \in Ranges, TriggerInRange(t, range),
               NEW f \in DOMAIN bin.functions,
               (bin.functions[f].start .. bin.functions[f].end - 1)
                   \cap (range.start .. range.end - 1) # {}
        PROVE  f \in dirty'.functions
    <3>1. bin.functions[f] \in Functions
      BY <1>1 DEF DatabaseInv
    <3>2. /\ bin.functions[f].start \in Int /\ bin.functions[f].end \in Int
          /\ range.start \in Int /\ range.end \in Int
      BY <3>1, FunctionTypes, RangeTypes
    <3>3. bin.functions[f].start < range.end /\ bin.functions[f].end > range.start
      BY <2>1, <3>2
    <3>4. QED
      BY <1>1, <2>1, <3>3, RangeReaches
  <2>2. ASSUME NEW t \in Triggers, NEW range \in Ranges, TriggerInRange(t, range),
               range.start < range.end, ResolveAddress(bin, range.start).insn # Invalid
        PROVE  ResolveAddress(bin, range.start).function \in dirty'.functions
    <3> DEFINE f == ResolveAddress(bin, range.start).function
    <3>1. /\ f \in DOMAIN bin.functions
          /\ bin.functions[f].start < range.end /\ bin.functions[f].end > range.start
      BY <1>1, <2>2, ResolvedHolds
    <3> HIDE DEF f
    <3>2. f \in dirty'.functions
      BY <1>1, <2>2, <3>1, RangeReaches
    <3>3. QED
      BY <3>2 DEF f
  <2>3. QED
    BY <1>1, <2>1, <2>2, TriggerReaches
<1>2. QED
  BY <1>1, DatabaseInductive, PTL DEF Spec, InvalidationReaches

-----------------------------------------------------------------------------
(* Addresses.                                                              *)

(* Adding to and taking from an address, which wrap at the width.          *)
LEMMA Wrapping ==
    ASSUME NEW x \in Int, 0 - Width <= x, x < 2 * Width
    PROVE  x % Width = IF x < 0 THEN x + Width ELSE IF x < Width THEN x ELSE x - Width
<1>1. Width \in Nat /\ Width > 0
  BY ImagesAssumption
<1> DEFINE W == Width
<1>2. \A y \in 0 .. W - 1 : y % W = y /\ (y - W) % W = y /\ (y + W) % W = y
  BY <1>1
<1>3. QED
  BY <1>1, <1>2

(* What is found is a section that passes, and there is one if any passes. *)
LEMMA FirstIs ==
    ASSUME NEW passing \in SUBSET Nat
    PROVE  /\ \A k \in FirstOf(passing) : k \in passing
           /\ \A k, n \in FirstOf(passing) : k = n
           /\ passing # {} => FirstOf(passing) # {}
<1>1. ASSUME passing # {} PROVE Min(passing) \in passing
  <2>1. \E k \in passing : \A n \in passing : k <= n
    BY <1>1, LeastNumber
  <2>2. QED
    BY <2>1 DEF Min
<1>2. QED
  BY <1>1 DEF FirstOf

LEMMA SectionsAre ==
    ASSUME AddressTypes
    PROVE  /\ DOMAIN Sections \in SUBSET Nat
           /\ Width \in Nat /\ Width > 0 /\ runtime \in 0 .. Width - 1
           /\ translating.base \in 0 .. Width - 1
           /\ \A k \in DOMAIN Sections :
                /\ Sections[k] \in Range(Sections)
                /\ Sections[k].fileOffset \in Nat /\ Sections[k].rawSize \in Nat
                /\ Sections[k].rva \in Nat /\ Sections[k].virtualSize \in Nat
                /\ Sections[k].virtualAddr = translating.base + Sections[k].rva
<1>1. IsImage(translating) /\ runtime \in Offsets /\ Sections = translating.sections
  BY DEF AddressTypes, Sections
<1>2. DOMAIN Sections \in SUBSET Nat
  <2>1. Sections \in Seq(Range(Sections))
    BY <1>1 DEF IsImage
  <2>2. DOMAIN Sections = 1 .. Len(Sections) /\ Len(Sections) \in Nat
    BY <2>1, LenProperties
  <2>3. QED
    BY <2>2
<1>3. ASSUME NEW k \in DOMAIN Sections
      PROVE  /\ Sections[k] \in Range(Sections)
             /\ Sections[k].fileOffset \in Nat /\ Sections[k].rawSize \in Nat
             /\ Sections[k].rva \in Nat /\ Sections[k].virtualSize \in Nat
             /\ Sections[k].virtualAddr = translating.base + Sections[k].rva
  <2>1. Sections[k] \in Range(Sections)
    BY DEF Range
  <2>2. QED
    BY <1>1, <2>1, ImagesAssumption DEF IsImage, Offsets
<1>4. QED
  BY <1>1, <1>2, <1>3, ImagesAssumption DEF IsImage, Offsets

(* The sections that hold a place in the file, a byte of the file that is  *)
(* in memory, and a byte in memory.                                        *)
OfFile(at) ==
    {n \in DOMAIN Sections : /\ at >= Sections[n].fileOffset
                             /\ at < Sections[n].fileOffset + Sections[n].rawSize}
OfRaw(rva) ==
    {n \in DOMAIN Sections : rva >= Sections[n].rva /\ rva < Sections[n].rva + Sections[n].rawSize}
OfMemory(rva) ==
    {n \in DOMAIN Sections : rva >= Sections[n].rva /\ rva < Sections[n].rva + Sections[n].virtualSize}

LEMMA FileToRvaIs ==
    ASSUME AddressTypes, NEW at
    PROVE  /\ \A x \in FileToRva(at) : \E k \in OfFile(at) :
                 x = Sections[k].rva + (at - Sections[k].fileOffset)
           /\ \A x, y \in FileToRva(at) : x = y
           /\ OfFile(at) # {} => FileToRva(at) # {}
<1>1. OfFile(at) \in SUBSET Nat
  BY SectionsAre DEF OfFile
<1>2. FileToRva(at) = {Sections[k].rva + (at - Sections[k].fileOffset) : k \in FirstOf(OfFile(at))}
  BY DEF FileToRva, OfFile
<1>3. QED
  BY <1>1, <1>2, FirstIs

LEMMA RvaToFileIs ==
    ASSUME AddressTypes, NEW rva
    PROVE  /\ \A x \in RvaToFile(rva) : \E k \in OfRaw(rva) :
                 x = Sections[k].fileOffset + (rva - Sections[k].rva)
           /\ \A x, y \in RvaToFile(rva) : x = y
           /\ OfRaw(rva) # {} => RvaToFile(rva) # {}
<1>1. OfRaw(rva) \in SUBSET Nat
  BY SectionsAre DEF OfRaw
<1>2. RvaToFile(rva) = {Sections[k].fileOffset + (rva - Sections[k].rva) : k \in FirstOf(OfRaw(rva))}
  BY DEF RvaToFile, OfRaw
<1>3. QED
  BY <1>1, <1>2, FirstIs

LEMMA SectionOfIs ==
    ASSUME AddressTypes, NEW rva
    PROVE  /\ \A k \in SectionOf(rva) : k \in OfMemory(rva)
           /\ \A k, n \in SectionOf(rva) : k = n
           /\ OfMemory(rva) # {} => SectionOf(rva) # {}
<1>1. OfMemory(rva) \in SUBSET Nat
  BY SectionsAre DEF OfMemory
<1>2. SectionOf(rva) = FirstOf(OfMemory(rva))
  BY DEF SectionOf, OfMemory
<1>3. QED
  BY <1>1, <1>2, FirstIs

(* Of sections that are apart, one holds a byte.                           *)
LEMMA OneHolds ==
    ASSUME AddressTypes, Apart(translating), NEW at \in Int
    PROVE  /\ \A k, n \in OfFile(at) : k = n
           /\ \A k, n \in OfRaw(at) : k = n
           /\ \A k, n \in OfMemory(at) : k = n
<1>1. ASSUME NEW k \in DOMAIN Sections, NEW n \in DOMAIN Sections, k # n
      PROVE  /\ Beside(Sections[k].fileOffset, Sections[k].rawSize, Sections[n].fileOffset, Sections[n].rawSize)
             /\ Beside(Sections[k].rva, Sections[k].rawSize, Sections[n].rva, Sections[n].rawSize)
             /\ Beside(Sections[k].rva, Sections[k].virtualSize, Sections[n].rva, Sections[n].virtualSize)
  BY <1>1 DEF Apart, Sections
<1>2. \A a, b, c, d \in Nat : ~(Beside(a, b, c, d) /\ at >= a /\ at < a + b /\ at >= c /\ at < c + d)
  BY DEF Beside
<1>3. \A k, n \in OfFile(at) : k = n
  <2>1. ASSUME NEW k \in OfFile(at), NEW n \in OfFile(at), k # n PROVE FALSE
    BY <1>1, <1>2, <2>1, SectionsAre DEF OfFile
  <2>2. QED
    BY <2>1
<1>4. \A k, n \in OfRaw(at) : k = n
  <2>1. ASSUME NEW k \in OfRaw(at), NEW n \in OfRaw(at), k # n PROVE FALSE
    BY <1>1, <1>2, <2>1, SectionsAre DEF OfRaw
  <2>2. QED
    BY <2>1
<1>5. \A k, n \in OfMemory(at) : k = n
  <2>1. ASSUME NEW k \in OfMemory(at), NEW n \in OfMemory(at), k # n PROVE FALSE
    BY <1>1, <1>2, <2>1, SectionsAre DEF OfMemory
  <2>2. QED
    BY <2>1
<1>6. QED
  BY <1>3, <1>4, <1>5

LEMMA RebaseBack ==
    ASSUME NEW base \in 0 .. Width - 1, NEW x \in 0 .. Width - 1
    PROVE  (((base + x) % Width) - base) % Width = x
<1>1. Width \in Nat /\ Width > 0
  BY ImagesAssumption
<1>2. (base + x) % Width = IF base + x < Width THEN base + x ELSE base + x - Width
  BY <1>1, Wrapping
<1> DEFINE v == (base + x) % Width
<1>3. /\ v - base \in Int /\ 0 - Width <= v - base /\ v - base < 2 * Width
      /\ v - base = x \/ v - base = x - Width
  BY <1>1, <1>2
<1> HIDE DEF v
<1>4. (v - base) % Width = x
  BY <1>1, <1>3, Wrapping
<1>5. QED
  BY <1>4 DEF v

LEMMA RebaseThere ==
    ASSUME NEW base \in 0 .. Width - 1, NEW x \in 0 .. Width - 1
    PROVE  (base + ((x - base) % Width)) % Width = x
<1>1. Width \in Nat /\ Width > 0
  BY ImagesAssumption
<1>2. (x - base) % Width = IF x - base < 0 THEN x - base + Width ELSE x - base
  BY <1>1, Wrapping
<1> DEFINE v == (x - base) % Width
<1>3. /\ base + v \in Int /\ 0 - Width <= base + v /\ base + v < 2 * Width
      /\ base + v = x \/ base + v = x + Width
  BY <1>1, <1>2
<1> HIDE DEF v
<1>4. (base + v) % Width = x
  BY <1>1, <1>3, Wrapping
<1>5. QED
  BY <1>4 DEF v

LEMMA FitsIs ==
    ASSUME AddressTypes, Fits(translating), NEW k \in DOMAIN Sections
    PROVE  /\ Sections[k].fileOffset + Sections[k].rawSize <= Width
           /\ translating.base + Sections[k].rva + Sections[k].rawSize <= Width
           /\ translating.base + Sections[k].rva + Sections[k].virtualSize <= Width
<1>1. Sections[k] \in Range(translating.sections)
  BY SectionsAre DEF Sections
<1>2. QED
  BY <1>1 DEF Fits

LEMMA AddressIs ==
    ASSUME NEW a \in AllAddresses
    PROVE  /\ a.space \in Spaces /\ a.offset \in 0 .. Width - 1
           /\ IF a.space = "Section"
              THEN a.section \in DOMAIN Sections
                   /\ a = [space |-> "Section", offset |-> a.offset, section |-> a.section]
              ELSE a = At(a.space, a.offset)
<1>1. CASE a \in {At(space, o) : space \in Spaces \ {"Section"}, o \in Offsets}
  <2>1. PICK space \in Spaces \ {"Section"}, o \in Offsets : a = At(space, o)
    BY <1>1
  <2>2. a.space = space /\ a.offset = o /\ space # "Section"
    BY <2>1 DEF At
  <2>3. QED
    BY <2>1, <2>2 DEF Offsets
<1>2. CASE a \in [space : {"Section"}, offset : Offsets, section : DOMAIN Sections]
  BY <1>2 DEF Offsets, Spaces
<1>3. QED
  BY <1>1, <1>2 DEF AllAddresses

(* An address has at most one place relative to the image.                 *)
LEMMA ToRvaIs ==
    ASSUME AddressTypes, Fits(translating), NEW a \in AllAddresses
    PROVE  /\ \A r \in ToRva(a) : r \in 0 .. Width - 1
           /\ \A r, q \in ToRva(a) : r = q
<1>1. /\ a.space \in Spaces /\ a.offset \in 0 .. Width - 1
      /\ a.space = "Section" => a.section \in DOMAIN Sections
  BY AddressIs
<1>2. /\ Width \in Nat /\ Width > 0 /\ runtime \in 0 .. Width - 1
      /\ translating.base \in 0 .. Width - 1
  BY SectionsAre
<1>3. CASE a.space = "File"
  <2>1. ToRva(a) = FileToRva(a.offset)
    BY <1>3 DEF ToRva
  <2>2. ASSUME NEW r \in FileToRva(a.offset) PROVE r \in 0 .. Width - 1
    <3>1. PICK k \in OfFile(a.offset) : r = Sections[k].rva + (a.offset - Sections[k].fileOffset)
      BY FileToRvaIs
    <3>2. /\ k \in DOMAIN Sections /\ a.offset >= Sections[k].fileOffset
          /\ a.offset < Sections[k].fileOffset + Sections[k].rawSize
      BY DEF OfFile
    <3>3. /\ Sections[k].rva \in Nat /\ Sections[k].fileOffset \in Nat /\ Sections[k].rawSize \in Nat
          /\ translating.base + Sections[k].rva + Sections[k].rawSize <= Width
      BY <3>2, SectionsAre, FitsIs
    <3>4. QED
      BY <1>1, <1>2, <3>1, <3>2, <3>3
  <2>3. QED
    BY <2>1, <2>2, FileToRvaIs
<1>4. CASE a.space = "RVA"
  <2>1. ToRva(a) = {a.offset}
    BY <1>4 DEF ToRva
  <2>2. QED
    BY <1>1, <2>1
<1>5. CASE a.space = "Image"
  <2>1. ToRva(a) = {(a.offset - translating.base) % Width}
    BY <1>5 DEF ToRva
  <2>2. (a.offset - translating.base) % Width \in 0 .. Width - 1
    BY <1>1, <1>2
  <2>3. QED
    BY <2>1, <2>2
<1>6. CASE a.space = "Runtime"
  <2>1. ToRva(a) = {(a.offset - runtime) % Width}
    BY <1>6 DEF ToRva
  <2>2. (a.offset - runtime) % Width \in 0 .. Width - 1
    BY <1>1, <1>2
  <2>3. QED
    BY <2>1, <2>2
<1>7. CASE a.space = "Section"
  <2>1. ToRva(a) = {Sections[k].rva + a.offset : k \in {n \in DOMAIN Sections :
                      n = a.section /\ a.offset < Sections[n].virtualSize}}
    BY <1>7 DEF ToRva
  <2>2. \A r \in ToRva(a) : r = Sections[a.section].rva + a.offset
                            /\ a.offset < Sections[a.section].virtualSize
    BY <2>1
  <2>3. /\ Sections[a.section].rva \in Nat /\ Sections[a.section].virtualSize \in Nat
        /\ translating.base + Sections[a.section].rva + Sections[a.section].virtualSize <= Width
    BY <1>1, <1>7, SectionsAre, FitsIs
  <2>4. QED
    BY <1>1, <1>2, <2>2, <2>3
<1>8. QED
  BY <1>1, <1>3, <1>4, <1>5, <1>6, <1>7 DEF Spaces

(* And a place relative to the image has at most one address of a space,   *)
(* which is of that place again.                                           *)
LEMMA FromRvaIs ==
    ASSUME AddressTypes, Fits(translating), Apart(translating), NEW rva \in 0 .. Width - 1,
           NEW space \in Spaces, NEW b \in FromRva(rva, space)
    PROVE  /\ b.space = space /\ ToRva(b) \subseteq {rva}
           /\ \A c \in FromRva(rva, space) : c = b
<1>2. /\ Width \in Nat /\ Width > 0 /\ runtime \in 0 .. Width - 1
      /\ translating.base \in 0 .. Width - 1
  BY SectionsAre
<1>3. CASE space = "File"
  <2>1. FromRva(rva, space) \subseteq {At("File", o) : o \in RvaToFile(rva)}
    BY <1>3 DEF FromRva
  <2>2. PICK o \in RvaToFile(rva) : b = At("File", o)
    BY <2>1
  <2>3. \A c \in FromRva(rva, space) : c = b
    BY <2>1, <2>2, RvaToFileIs
  <2>4. b.space = "File" /\ ToRva(b) = FileToRva(o)
    BY <2>2 DEF At, ToRva
  <2>5. PICK k \in OfRaw(rva) : o = Sections[k].fileOffset + (rva - Sections[k].rva)
    BY RvaToFileIs
  <2>6. /\ k \in DOMAIN Sections /\ rva >= Sections[k].rva
        /\ rva < Sections[k].rva + Sections[k].rawSize
    BY DEF OfRaw
  <2>7. Sections[k].rva \in Nat /\ Sections[k].fileOffset \in Nat /\ Sections[k].rawSize \in Nat
    BY <2>6, SectionsAre
  <2>8. /\ o >= Sections[k].fileOffset /\ o < Sections[k].fileOffset + Sections[k].rawSize /\ o \in Int
        /\ rva = Sections[k].rva + (o - Sections[k].fileOffset)
    BY <2>5, <2>6, <2>7
  <2>9. k \in OfFile(o)
    BY <2>6, <2>8 DEF OfFile
  <2>10. ASSUME NEW r \in FileToRva(o) PROVE r = rva
    <3>1. PICK n \in OfFile(o) : r = Sections[n].rva + (o - Sections[n].fileOffset)
      BY FileToRvaIs
    <3>2. n = k
      BY <2>8, <2>9, OneHolds
    <3>3. QED
      BY <2>8, <3>1, <3>2
  <2>11. QED
    BY <1>3, <2>3, <2>4, <2>10
<1>4. CASE space = "RVA"
  <2>1. FromRva(rva, space) = {At("RVA", rva)}
    BY <1>4 DEF FromRva
  <2>2. b.space = "RVA" /\ b.offset = rva
    BY <2>1 DEF At
  <2>3. ToRva(b) = {rva}
    BY <2>2 DEF ToRva
  <2>4. QED
    BY <1>4, <2>1, <2>2, <2>3
<1>5. CASE space = "Image"
  <2> DEFINE v == (translating.base + rva) % Width
  <2>1. FromRva(rva, space) = {At("Image", v)}
    BY <1>5 DEF FromRva
  <2>2. b.space = "Image" /\ b.offset = v
    BY <2>1 DEF At
  <2>3. ToRva(b) = {(v - translating.base) % Width}
    BY <2>2 DEF ToRva
  <2>4. (v - translating.base) % Width = rva
    BY <1>2, RebaseBack
  <2>5. QED
    BY <1>5, <2>1, <2>2, <2>3, <2>4
<1>6. CASE space = "Runtime"
  <2> DEFINE v == (runtime + rva) % Width
  <2>1. FromRva(rva, space) = {At("Runtime", v)}
    BY <1>6 DEF FromRva
  <2>2. b.space = "Runtime" /\ b.offset = v
    BY <2>1 DEF At
  <2>3. ToRva(b) = {(v - runtime) % Width}
    BY <2>2 DEF ToRva
  <2>4. (v - runtime) % Width = rva
    BY <1>2, RebaseBack
  <2>5. QED
    BY <1>6, <2>1, <2>2, <2>3, <2>4
<1>7. CASE space = "Section"
  <2>1. FromRva(rva, space) = {[space |-> "Section", offset |-> rva - Sections[k].rva, section |-> k] :
                                 k \in SectionOf(rva)}
    BY <1>7 DEF FromRva
  <2>2. PICK k \in SectionOf(rva) :
           b = [space |-> "Section", offset |-> rva - Sections[k].rva, section |-> k]
    BY <2>1
  <2>3. \A c \in FromRva(rva, space) : c = b
    BY <2>1, <2>2, SectionOfIs
  <2>4. b.space = "Section" /\ b.section = k /\ b.offset = rva - Sections[k].rva
    BY <2>2
  <2>5. ToRva(b) = {Sections[m].rva + b.offset : m \in {n \in DOMAIN Sections :
                      n = b.section /\ b.offset < Sections[n].virtualSize}}
    BY <2>4 DEF ToRva
  <2>6. k \in DOMAIN Sections
    BY SectionOfIs DEF OfMemory
  <2>7. Sections[k].rva \in Nat
    BY <2>6, SectionsAre
  <2>8. \A r \in ToRva(b) : r = Sections[k].rva + b.offset
    BY <2>4, <2>5
  <2>9. Sections[k].rva + b.offset = rva
    BY <2>4, <2>7
  <2>10. QED
    BY <1>7, <2>3, <2>4, <2>8, <2>9
<1>8. QED
  BY <1>3, <1>4, <1>5, <1>6, <1>7 DEF Spaces

LEMMA ComesBack ==
    ASSUME AddressTypes, Fits(translating), Apart(translating), NEW a \in AllAddresses,
           NEW rva \in ToRva(a)
    PROVE  FromRva(rva, a.space) \subseteq {a}
<1>1. /\ a.space \in Spaces /\ a.offset \in 0 .. Width - 1
      /\ IF a.space = "Section"
         THEN a.section \in DOMAIN Sections
              /\ a = [space |-> "Section", offset |-> a.offset, section |-> a.section]
         ELSE a = At(a.space, a.offset)
  BY AddressIs
<1>2. /\ Width \in Nat /\ Width > 0 /\ runtime \in 0 .. Width - 1
      /\ translating.base \in 0 .. Width - 1
  BY SectionsAre
<1>3. CASE a.space = "File"
  <2>1. FromRva(rva, a.space) \subseteq {At("File", o) : o \in RvaToFile(rva)}
    BY <1>3 DEF FromRva
  <2>2. rva \in FileToRva(a.offset)
    BY <1>3 DEF ToRva
  <2>3. PICK k \in OfFile(a.offset) : rva = Sections[k].rva + (a.offset - Sections[k].fileOffset)
    BY <2>2, FileToRvaIs
  <2>4. /\ k \in DOMAIN Sections /\ a.offset >= Sections[k].fileOffset
        /\ a.offset < Sections[k].fileOffset + Sections[k].rawSize
    BY DEF OfFile
  <2>5. Sections[k].rva \in Nat /\ Sections[k].fileOffset \in Nat /\ Sections[k].rawSize \in Nat
    BY <2>4, SectionsAre
  <2>6. /\ rva >= Sections[k].rva /\ rva < Sections[k].rva + Sections[k].rawSize /\ rva \in Int
        /\ a.offset = Sections[k].fileOffset + (rva - Sections[k].rva)
    BY <1>1, <1>2, <2>3, <2>4, <2>5
  <2>7. k \in OfRaw(rva)
    BY <2>4, <2>6 DEF OfRaw
  <2>8. ASSUME NEW o \in RvaToFile(rva) PROVE o = a.offset
    <3>1. PICK n \in OfRaw(rva) : o = Sections[n].fileOffset + (rva - Sections[n].rva)
      BY RvaToFileIs
    <3>2. n = k
      BY <2>6, <2>7, OneHolds
    <3>3. QED
      BY <2>6, <3>1, <3>2
  <2>9. a = At("File", a.offset)
    BY <1>1, <1>3
  <2>10. QED
    BY <2>1, <2>8, <2>9
<1>4. CASE a.space = "RVA"
  <2>1. FromRva(rva, a.space) = {At("RVA", rva)} /\ rva = a.offset
    BY <1>4 DEF FromRva, ToRva
  <2>2. QED
    BY <1>1, <1>4, <2>1
<1>5. CASE a.space = "Image"
  <2>1. rva = (a.offset - translating.base) % Width
    BY <1>5 DEF ToRva
  <2>2. FromRva(rva, a.space) = {At("Image", (translating.base + rva) % Width)}
    BY <1>5 DEF FromRva
  <2>3. (translating.base + rva) % Width = a.offset
    BY <1>1, <1>2, <2>1, RebaseThere
  <2>4. QED
    BY <1>1, <1>5, <2>2, <2>3
<1>6. CASE a.space = "Runtime"
  <2>1. rva = (a.offset - runtime) % Width
    BY <1>6 DEF ToRva
  <2>2. FromRva(rva, a.space) = {At("Runtime", (runtime + rva) % Width)}
    BY <1>6 DEF FromRva
  <2>3. (runtime + rva) % Width = a.offset
    BY <1>1, <1>2, <2>1, RebaseThere
  <2>4. QED
    BY <1>1, <1>6, <2>2, <2>3
<1>7. CASE a.space = "Section"
  <2> DEFINE k == a.section
  <2>1. k \in DOMAIN Sections /\ a = [space |-> "Section", offset |-> a.offset, section |-> k]
    BY <1>1, <1>7
  <2>2. rva \in {Sections[m].rva + a.offset : m \in {n \in DOMAIN Sections :
                   n = a.section /\ a.offset < Sections[n].virtualSize}}
    BY <1>7 DEF ToRva
  <2>3. rva = Sections[k].rva + a.offset /\ a.offset < Sections[k].virtualSize
    BY <2>2
  <2> HIDE DEF k
  <2>4. Sections[k].rva \in Nat /\ Sections[k].virtualSize \in Nat
    BY <2>1, SectionsAre
  <2>5. rva \in Int /\ rva >= Sections[k].rva /\ rva < Sections[k].rva + Sections[k].virtualSize
    BY <1>1, <1>2, <2>3, <2>4
  <2>6. k \in OfMemory(rva)
    BY <2>1, <2>5 DEF OfMemory
  <2>7. \A n \in SectionOf(rva) : n = k
    BY <2>5, <2>6, SectionOfIs, OneHolds
  <2>8. FromRva(rva, a.space) =
           {[space |-> "Section", offset |-> rva - Sections[n].rva, section |-> n] : n \in SectionOf(rva)}
    BY <1>7 DEF FromRva
  <2>9. rva - Sections[k].rva = a.offset
    BY <1>1, <2>3, <2>4
  <2>10. QED
    BY <2>1, <2>7, <2>8, <2>9
<1>8. QED
  BY <1>1, <1>3, <1>4, <1>5, <1>6, <1>7 DEF Spaces

LEMMA TranslateIs ==
    ASSUME NEW a, NEW space
    PROVE  /\ a.space = space => Translate(a, space) = {a}
           /\ a.space # space => \A b : b \in Translate(a, space) <=>
                                          \E rva \in ToRva(a) : b \in FromRva(rva, space)
  BY DEF Translate

(* A place in the file.                                                    *)
LEMMA ToFileIs ==
    ASSUME AddressTypes, Fits(translating), NEW a \in AllAddresses
    PROVE  \A f \in Translate(a, "File") : f.offset \in Nat
<1>1. CASE a.space = "File"
  BY <1>1, AddressIs, TranslateIs
<1>2. CASE a.space # "File"
  <2>1. ASSUME NEW f \in Translate(a, "File") PROVE f.offset \in Nat
    <3>1. PICK rva \in ToRva(a) : f \in FromRva(rva, "File")
      BY <1>2, TranslateIs
    <3>2. f \in {At("File", o) : o \in RvaToFile(rva)}
      BY <3>1 DEF FromRva
    <3>3. PICK o \in RvaToFile(rva) : f = At("File", o)
      BY <3>2
    <3>4. PICK k \in OfRaw(rva) : o = Sections[k].fileOffset + (rva - Sections[k].rva)
      BY RvaToFileIs
    <3>5. k \in DOMAIN Sections /\ rva >= Sections[k].rva /\ rva \in Int
      BY ToRvaIs DEF OfRaw
    <3>6. Sections[k].fileOffset \in Nat /\ Sections[k].rva \in Nat
      BY <3>5, SectionsAre
    <3>7. o \in Nat
      BY <3>4, <3>5, <3>6
    <3>8. QED
      BY <3>3, <3>7 DEF At
  <2>2. QED
    BY <2>1
<1>3. QED
  BY <1>1, <1>2

LEMMA OneByteRead ==
    ASSUME AddressTypes, NEW a, \A f \in Translate(a, "File") : f.offset \in Nat
    PROVE  \A i \in ReadInto(a, 1) : \E f \in Translate(a, "File") : i = f.offset
<1>1. image.fileSize \in Nat
  BY DEF AddressTypes, IsImage
<1>2. ASSUME NEW i \in ReadInto(a, 1) PROVE \E f \in Translate(a, "File") : i = f.offset
  <2>1. PICK f \in Translate(a, "File") :
           f.offset < image.fileSize /\ i \in {f.offset + j : j \in 0 .. Min({1, image.fileSize - f.offset}) - 1}
    BY DEF ReadInto
  <2>2. f.offset \in Nat /\ image.fileSize - f.offset \in Nat /\ image.fileSize - f.offset >= 1
    BY <1>1, <2>1
  <2>3. \A n \in Nat : n >= 1 => Min({1, n}) = 1
    BY DEF Min
  <2>4. Min({1, image.fileSize - f.offset}) = 1
    BY <2>2, <2>3
  <2>5. i = f.offset
    BY <2>1, <2>2, <2>4
  <2>6. QED
    BY <2>5
<1>3. QED
  BY <1>2

(* A translation that gives an address gives one that comes back, and has  *)
(* no other place in the file.                                             *)
LEMMA TranslatesBack ==
    ASSUME AddressTypes, Fits(translating), Apart(translating), NEW a \in AllAddresses,
           NEW space \in Spaces, NEW b \in Translate(a, space)
    PROVE  /\ Translate(b, a.space) \subseteq {a}
           /\ Translate(b, "File") \subseteq Translate(a, "File")
           /\ \A f, g \in Translate(a, "File") : f = g
<1>1. a.space \in Spaces /\ "File" \in Spaces
  BY AddressIs DEF Spaces
<1>2. \A f, g \in Translate(a, "File") : f = g
  <2>1. CASE a.space = "File"
    BY <2>1, TranslateIs
  <2>2. CASE a.space # "File"
    <3>1. ASSUME NEW f \in Translate(a, "File"), NEW g \in Translate(a, "File") PROVE f = g
      <4>1. PICK r \in ToRva(a) : f \in FromRva(r, "File")
        BY <2>2, TranslateIs
      <4>2. PICK q \in ToRva(a) : g \in FromRva(q, "File")
        BY <2>2, TranslateIs
      <4>3. r = q /\ r \in 0 .. Width - 1
        BY ToRvaIs
      <4>4. QED
        BY <1>1, <4>1, <4>2, <4>3, FromRvaIs
    <3>2. QED
      BY <3>1
  <2>3. QED
    BY <2>1, <2>2
<1>3. CASE space = a.space
  <2>1. b = a /\ Translate(b, a.space) = {a}
    BY <1>3, TranslateIs
  <2>2. QED
    BY <1>2, <2>1
<1>4. CASE space # a.space
  <2>1. PICK rva \in ToRva(a) : b \in FromRva(rva, space)
    BY <1>4, TranslateIs
  <2>2. rva \in 0 .. Width - 1
    BY ToRvaIs
  <2>3. b.space = space /\ ToRva(b) \subseteq {rva}
    BY <2>1, <2>2, FromRvaIs
  <2>4. FromRva(rva, a.space) \subseteq {a}
    BY <2>1, ComesBack
  <2>5. Translate(b, a.space) \subseteq {a}
    <3>1. ASSUME NEW c \in Translate(b, a.space) PROVE c = a
      <4>1. PICK r \in ToRva(b) : c \in FromRva(r, a.space)
        BY <1>4, <2>3, TranslateIs
      <4>2. QED
        BY <2>3, <2>4, <4>1
    <3>2. QED
      BY <3>1
  <2>6. Translate(b, "File") \subseteq Translate(a, "File")
    <3>1. CASE a.space = "File"
      BY <2>5, <3>1, TranslateIs
    <3>2. CASE a.space # "File"
      <4>1. ASSUME NEW f \in Translate(b, "File") PROVE f \in Translate(a, "File")
        <5>1. CASE b.space = "File"
          BY <2>1, <2>3, <3>2, <5>1, TranslateIs
        <5>2. CASE b.space # "File"
          <6>1. PICK r \in ToRva(b) : f \in FromRva(r, "File")
            BY <5>2, TranslateIs
          <6>2. QED
            BY <2>1, <2>3, <3>2, <6>1, TranslateIs
        <5>3. QED
          BY <5>1, <5>2
      <4>2. QED
        BY <4>1
    <3>3. QED
      BY <3>1, <3>2
  <2>7. QED
    BY <1>2, <2>5, <2>6
<1>5. QED
  BY <1>3, <1>4

LEMMA Inverting ==
    ASSUME AddressTypes
    PROVE  TranslationsInvert
<1> SUFFICES ASSUME Fits(translating), Apart(translating), NEW a \in AllAddresses, NEW space \in Spaces,
                    NEW b \in Translate(a, space)
             PROVE  /\ Translate(b, a.space) \subseteq {a}
                    /\ \A i \in ReadInto(a, 1), j \in ReadInto(b, 1) : i = j
  BY DEF TranslationsInvert
<1>1. /\ Translate(b, a.space) \subseteq {a}
      /\ Translate(b, "File") \subseteq Translate(a, "File")
      /\ \A f, g \in Translate(a, "File") : f = g
  BY TranslatesBack
<1>2. \A f \in Translate(a, "File") : f.offset \in Nat
  BY ToFileIs
<1>3. ASSUME NEW i \in ReadInto(a, 1), NEW j \in ReadInto(b, 1) PROVE i = j
  <2>1. PICK f \in Translate(a, "File") : i = f.offset
    BY <1>2, OneByteRead
  <2>2. \A g \in Translate(b, "File") : g.offset \in Nat
    BY <1>1, <1>2
  <2>3. PICK g \in Translate(b, "File") : j = g.offset
    BY <2>2, OneByteRead
  <2>4. f = g
    BY <1>1
  <2>5. QED
    BY <2>1, <2>3, <2>4
<1>4. QED
  BY <1>1, <1>3

LEMMA Shifts ==
    ASSUME NEW base \in 0 .. Width - 1, NEW other \in 0 .. Width - 1, NEW x \in 0 .. Width - 1
    PROVE  /\ (x - base + other) % Width = (other + ((x - base) % Width)) % Width
           /\ (x + (other - base)) % Width = (x - base + other) % Width
           /\ (x - (base - other)) % Width = (x - base + other) % Width
           /\ (x - base) % Width = IF x < base THEN x - base + Width ELSE x - base
<1>1. Width \in Nat /\ Width > 0
  BY ImagesAssumption
<1> DEFINE v == (x - base) % Width
           y == x - base + other
           z == other + v
<1>2. v = IF x < base THEN x - base + Width ELSE x - base
  BY <1>1, Wrapping
<1>3. /\ y \in Int /\ 0 - Width <= y /\ y < 2 * Width
      /\ x + (other - base) = y /\ x - (base - other) = y
  BY <1>1
<1>4. z \in Int /\ 0 - Width <= z /\ z < 2 * Width /\ (z = y \/ z = y + Width) /\ 0 <= z
      /\ (x < base => z = y + Width) /\ (x >= base => z = y)
  <2> HIDE DEF v
  <2>1. QED
    BY <1>1, <1>2
<1> HIDE DEF v, y, z
<1>5. y % Width = z % Width
  <2>1. /\ y % Width = IF y < 0 THEN y + Width ELSE IF y < Width THEN y ELSE y - Width
        /\ z % Width = IF z < 0 THEN z + Width ELSE IF z < Width THEN z ELSE z - Width
    BY <1>3, <1>4, Wrapping
  <2>2. y >= 0 \/ z = y + Width
    BY <1>2, <1>3, <1>4 DEF y
  <2>3. x < base => y < Width
    BY <1>1 DEF y
  <2>4. QED
    BY <1>1, <1>3, <1>4, <2>1, <2>2, <2>3
<1>6. QED
  BY <1>2, <1>3, <1>5 DEF v, y, z

(* The four ways between two spaces that are not by translate.             *)
LEMMA OtherWays ==
    ASSUME AddressTypes, Fits(translating), NEW a \in Offsets
    PROVE  /\ {At("Runtime", ImageToRuntime(a))} = Translate(At("Image", a), "Runtime")
           /\ ImageToRuntime(a) = ApplyRebase(a)
           /\ {At("Image", x) : x \in RuntimeToImage(a)}
                 \subseteq Translate(At("Runtime", a), "Image") \cap {At("Image", RemoveRebase(a))}
           /\ {x.offset : x \in Translate(At("Image", a), "File")} \subseteq ImageToFile(a)
           /\ {x.offset : x \in Translate(At("File", a), "Image")} = FileToImage(a)
<1> DEFINE base == translating.base
<1>1. /\ Width \in Nat /\ Width > 0 /\ runtime \in 0 .. Width - 1 /\ base \in 0 .. Width - 1
      /\ a \in 0 .. Width - 1
  BY SectionsAre DEF Offsets
<1>2. /\ (a - base + runtime) % Width = (runtime + ((a - base) % Width)) % Width
      /\ (a + (runtime - base)) % Width = (a - base + runtime) % Width
      /\ (a - base) % Width = IF a < base THEN a - base + Width ELSE a - base
  BY <1>1, Shifts
<1>3. /\ (a - runtime + base) % Width = (base + ((a - runtime) % Width)) % Width
      /\ (a - (runtime - base)) % Width = (a - runtime + base) % Width
  BY <1>1, Shifts
<1>4. \A space : ToRva(At("Image", a)) = {(a - base) % Width}
                 /\ ToRva(At("Runtime", a)) = {(a - runtime) % Width}
                 /\ ToRva(At("File", a)) = FileToRva(a)
  BY DEF ToRva, At
<1>5. \A s \in {"Image", "Runtime", "File"} : At(s, a).space = s
  BY DEF At
<1>6. {At("Runtime", ImageToRuntime(a))} = Translate(At("Image", a), "Runtime")
  <2>1. Translate(At("Image", a), "Runtime") =
           UNION {FromRva(rva, "Runtime") : rva \in {(a - base) % Width}}
    BY <1>4, <1>5 DEF Translate
  <2>2. FromRva((a - base) % Width, "Runtime") = {At("Runtime", (runtime + ((a - base) % Width)) % Width)}
    BY DEF FromRva
  <2>3. QED
    BY <1>2, <2>1, <2>2 DEF ImageToRuntime
<1>7. ImageToRuntime(a) = ApplyRebase(a)
  BY <1>2 DEF ImageToRuntime, ApplyRebase, RebaseDelta
<1>8. {At("Image", x) : x \in RuntimeToImage(a)}
         \subseteq Translate(At("Runtime", a), "Image") \cap {At("Image", RemoveRebase(a))}
  <2>1. Translate(At("Runtime", a), "Image") =
           UNION {FromRva(rva, "Image") : rva \in {(a - runtime) % Width}}
    BY <1>4, <1>5 DEF Translate
  <2>2. FromRva((a - runtime) % Width, "Image") = {At("Image", (base + ((a - runtime) % Width)) % Width)}
    BY DEF FromRva
  <2>3. \A x \in RuntimeToImage(a) : x = (a - runtime + base) % Width
    BY DEF RuntimeToImage
  <2>4. RemoveRebase(a) = (a - runtime + base) % Width
    BY <1>3 DEF RemoveRebase, RebaseDelta
  <2>5. QED
    BY <1>3, <2>1, <2>2, <2>3, <2>4
<1>9. {x.offset : x \in Translate(At("Image", a), "File")} \subseteq ImageToFile(a)
  <2> DEFINE r == (a - base) % Width
  <2>1. ASSUME NEW x \in Translate(At("Image", a), "File") PROVE x.offset \in RvaToFile(r)
    <3>1. x \in FromRva(r, "File")
      BY <1>4, <1>5, TranslateIs
    <3>2. x \in {At("File", o) : o \in RvaToFile(r)}
      BY <3>1 DEF FromRva
    <3>3. QED
      BY <3>2 DEF At
  <2> HIDE DEF r
  <2>2. CASE a >= base
    <3>1. r = a - base
      BY <1>1, <1>2, <2>2 DEF r
    <3>2. ImageToFile(a) = RvaToFile(a - base)
      BY <1>1, <2>2 DEF ImageToFile
    <3>3. QED
      BY <2>1, <3>1, <3>2
  <2>3. CASE a < base
    <3>1. r = a - base + Width
      BY <1>2, <2>3 DEF r
    <3>2. RvaToFile(r) = {}
      <4>1. ASSUME NEW o \in RvaToFile(r) PROVE FALSE
        <5>1. PICK k \in OfRaw(r) : o = Sections[k].fileOffset + (r - Sections[k].rva)
          BY RvaToFileIs
        <5>2. k \in DOMAIN Sections /\ r < Sections[k].rva + Sections[k].rawSize
          BY DEF OfRaw
        <5>3. /\ Sections[k].rva \in Nat /\ Sections[k].rawSize \in Nat
              /\ base + Sections[k].rva + Sections[k].rawSize <= Width
          BY <5>2, SectionsAre, FitsIs
        <5>4. QED
          BY <1>1, <3>1, <5>2, <5>3
      <4>2. QED
        BY <4>1
    <3>3. QED
      BY <2>1, <3>2
  <2>4. QED
    BY <1>1, <2>2, <2>3
<1>10. {x.offset : x \in Translate(At("File", a), "Image")} = FileToImage(a)
  <2>1. Translate(At("File", a), "Image") = UNION {FromRva(rva, "Image") : rva \in FileToRva(a)}
    BY <1>4, <1>5 DEF Translate
  <2>2. ASSUME NEW rva \in FileToRva(a) PROVE FromRva(rva, "Image") = {At("Image", base + rva)}
    <3>1. FromRva(rva, "Image") = {At("Image", (base + rva) % Width)}
      BY DEF FromRva
    <3>2. PICK k \in OfFile(a) : rva = Sections[k].rva + (a - Sections[k].fileOffset)
      BY FileToRvaIs
    <3>3. /\ k \in DOMAIN Sections /\ a >= Sections[k].fileOffset
          /\ a < Sections[k].fileOffset + Sections[k].rawSize
      BY DEF OfFile
    <3>4. /\ Sections[k].rva \in Nat /\ Sections[k].fileOffset \in Nat /\ Sections[k].rawSize \in Nat
          /\ base + Sections[k].rva + Sections[k].rawSize <= Width
      BY <3>3, SectionsAre, FitsIs
    <3>5. base + rva \in 0 .. Width - 1
      BY <1>1, <3>2, <3>3, <3>4
    <3>6. (base + rva) % Width = base + rva
      BY <1>1, <3>5, Wrapping
    <3>7. QED
      BY <3>1, <3>6
  <2>3. \A v : At("Image", v).offset = v
    BY DEF At
  <2> HIDE DEF base
  <2>4. FileToImage(a) = {base + rva : rva \in FileToRva(a)}
    BY DEF FileToImage, base
  <2>5. ASSUME NEW x PROVE x \in {y.offset : y \in Translate(At("File", a), "Image")} <=> x \in FileToImage(a)
    <3>1. x \in {y.offset : y \in Translate(At("File", a), "Image")} <=>
             \E rva \in FileToRva(a) : \E y \in FromRva(rva, "Image") : x = y.offset
      BY <2>1
    <3>2. QED
      BY <2>2, <2>3, <2>4, <3>1
  <2>6. QED
    BY <2>5
<1>11. QED
  BY <1>6, <1>7, <1>8, <1>9, <1>10

(* A segment by itself.                                                    *)
LEMMA SegmentsAre ==
    ASSUME AddressTypes, NEW a \in Int
    PROVE  /\ FileToRva(a) \subseteq UNION {SegmentFileToRva(k, a) : k \in DOMAIN Sections}
           /\ Apart(translating) =>
                /\ UNION {SegmentFileToRva(k, a) : k \in DOMAIN Sections} \subseteq FileToRva(a)
                /\ UNION {SegmentRvaToFile(k, a) : k \in DOMAIN Sections} \subseteq RvaToFile(a)
<1>1. ASSUME NEW x \in FileToRva(a)
      PROVE  \E k \in DOMAIN Sections : x \in SegmentFileToRva(k, a)
  <2>1. PICK k \in OfFile(a) : x = Sections[k].rva + (a - Sections[k].fileOffset)
    BY FileToRvaIs
  <2>2. /\ k \in DOMAIN Sections /\ a >= Sections[k].fileOffset
        /\ a < Sections[k].fileOffset + Sections[k].rawSize
    BY DEF OfFile
  <2>3. x \in SegmentFileToRva(k, a)
    BY <2>1, <2>2 DEF SegmentFileToRva
  <2>4. QED
    BY <2>2, <2>3
<1>2. ASSUME Apart(translating), NEW k \in DOMAIN Sections, NEW x \in SegmentFileToRva(k, a)
      PROVE  x \in FileToRva(a)
  <2>1. x = Sections[k].rva + (a - Sections[k].fileOffset) /\ k \in OfFile(a)
    BY DEF SegmentFileToRva, OfFile
  <2>2. PICK y \in FileToRva(a) : TRUE
    BY <2>1, FileToRvaIs
  <2>3. PICK n \in OfFile(a) : y = Sections[n].rva + (a - Sections[n].fileOffset)
    BY FileToRvaIs
  <2>4. n = k
    BY <1>2, <2>1, OneHolds
  <2>5. QED
    BY <2>1, <2>2, <2>3, <2>4
<1>3. ASSUME Apart(translating), NEW k \in DOMAIN Sections, NEW x \in SegmentRvaToFile(k, a)
      PROVE  x \in RvaToFile(a)
  <2>1. /\ x = Sections[k].fileOffset + (a - Sections[k].rva) /\ a >= Sections[k].rva
        /\ a < Sections[k].rva + Min({Sections[k].virtualSize, Sections[k].rawSize})
    BY DEF SegmentRvaToFile
  <2>2. \A m, n \in Nat : Min({m, n}) \in Nat /\ Min({m, n}) <= n
    BY DEF Min
  <2>3. Sections[k].rva \in Nat /\ Sections[k].rawSize \in Nat /\ Sections[k].virtualSize \in Nat
    BY SectionsAre
  <2>4. a < Sections[k].rva + Sections[k].rawSize
    BY <2>1, <2>2, <2>3
  <2>5. k \in OfRaw(a)
    BY <2>1, <2>4 DEF OfRaw
  <2>6. PICK y \in RvaToFile(a) : TRUE
    BY <2>5, RvaToFileIs
  <2>7. PICK n \in OfRaw(a) : y = Sections[n].fileOffset + (a - Sections[n].rva)
    BY RvaToFileIs
  <2>8. n = k
    BY <1>3, <2>5, OneHolds
  <2>9. QED
    BY <2>1, <2>6, <2>7, <2>8
<1>4. QED
  BY <1>1, <1>2, <1>3

(* The binary's own conversions.                                           *)
LEMMA BinaryConverts ==
    ASSUME AddressTypes, translating = image, NEW a \in Nat
    PROVE  FileToImage(a) = FileToVirtual(image, a) /\ ImageToFile(a) = VirtualToFile(image, a)
<1> DEFINE base == translating.base
<1>1. /\ Width \in Nat /\ base \in Nat /\ image.base = base /\ image.sections = Sections
      /\ \A k \in DOMAIN Sections : Sections[k].rva \in Nat /\ Sections[k].rawSize \in Nat
                                    /\ Sections[k].fileOffset \in Nat
  BY SectionsAre DEF Sections
<1>2. 0 \notin DOMAIN Sections /\ DOMAIN Sections \in SUBSET Nat
  <2>1. Sections \in Seq(Range(Sections))
    BY DEF AddressTypes, IsImage, Sections
  <2>2. DOMAIN Sections = 1 .. Len(Sections) /\ Len(Sections) \in Nat
    BY <2>1, LenProperties
  <2>3. QED
    BY <2>2
<1>3. FileToImage(a) = FileToVirtual(image, a)
  <2> DEFINE S == OfFile(a)
             first == FirstSection(image, [k \in DOMAIN Sections |->
                                             /\ Sections[k].fileOffset <= a
                                             /\ a < Sections[k].fileOffset + Sections[k].rawSize])
             m == Min(S)
  <2>1. S = {k \in DOMAIN Sections : /\ Sections[k].fileOffset <= a
                                     /\ a < Sections[k].fileOffset + Sections[k].rawSize}
    BY <1>1 DEF OfFile
  <2>2. first = IF S = {} THEN Invalid ELSE m
    BY <1>1, <2>1, Zenon DEF FirstSection
  <2>3. FileToVirtual(image, a) =
           IF first = Invalid THEN {} ELSE {base + Sections[first].rva + (a - Sections[first].fileOffset)}
    BY <1>1, Zenon DEF FileToVirtual
  <2>4. FileToImage(a) = {base + rva : rva \in {Sections[k].rva + (a - Sections[k].fileOffset) :
                                                  k \in FirstOf(S)}}
    BY DEF FileToImage, FileToRva, OfFile
  <2>5. CASE S = {}
    <3>1. FirstOf(S) = {} /\ first = Invalid
      BY <2>2, <2>5 DEF FirstOf
    <3>2. QED
      BY <2>3, <2>4, <3>1
  <2>6. CASE S # {}
    <3>1. FirstOf(S) = {m} /\ first = m
      BY <2>2, <2>6 DEF FirstOf
    <3>2. S \in SUBSET Nat
      BY <1>2 DEF OfFile
    <3>3. m \in S
      BY <3>1, <3>2, FirstIs
    <3>4. m \in DOMAIN Sections /\ m # Invalid
      BY <1>2, <3>3 DEF OfFile, Invalid
    <3> HIDE DEF S, m, first, base
    <3>5. base + (Sections[m].rva + (a - Sections[m].fileOffset)) =
             base + Sections[m].rva + (a - Sections[m].fileOffset)
      BY <1>1, <3>4
    <3>6. QED
      BY <2>3, <2>4, <3>1, <3>4, <3>5
  <2>7. QED
    BY <2>5, <2>6
<1>4. ImageToFile(a) = VirtualToFile(image, a)
  <2> DEFINE S == {k \in DOMAIN Sections : /\ a >= base + Sections[k].rva
                                           /\ a < base + Sections[k].rva + Sections[k].rawSize}
             first == FirstSection(image, [k \in DOMAIN Sections |->
                                             /\ a >= base + Sections[k].rva
                                             /\ a < base + Sections[k].rva + Sections[k].rawSize])
             m == Min(S)
  <2>2. first = IF S = {} THEN Invalid ELSE m
    BY <1>1, Zenon DEF FirstSection
  <2>3. VirtualToFile(image, a) =
           IF first = Invalid THEN {} ELSE {Sections[first].fileOffset + (a - base - Sections[first].rva)}
    BY <1>1, Zenon DEF VirtualToFile
  <2>4. CASE a < base
    <3>1. S = {}
      BY <1>1, <2>4
    <3>2. ImageToFile(a) = {}
      BY <2>4 DEF ImageToFile
    <3> HIDE DEF S, first
    <3>3. QED
      BY <2>2, <2>3, <3>1, <3>2
  <2>5. CASE a >= base
    <3> DEFINE r == a - base
    <3>1. ~(a < base) /\ r \in Nat
      BY <1>1, <2>5
    <3>2. S = OfRaw(r)
      BY <1>1, <3>1 DEF OfRaw
    <3>3. ImageToFile(a) = {Sections[k].fileOffset + (r - Sections[k].rva) : k \in FirstOf(OfRaw(r))}
      BY <3>1 DEF ImageToFile, RvaToFile, OfRaw
    <3>4. CASE S = {}
      <4>1. FirstOf(OfRaw(r)) = {} /\ first = Invalid
        BY <2>2, <3>2, <3>4 DEF FirstOf
      <4>2. QED
        BY <2>3, <3>3, <4>1
    <3>5. CASE S # {}
      <4>1. FirstOf(OfRaw(r)) = {m} /\ first = m
        BY <2>2, <3>2, <3>5 DEF FirstOf
      <4>2. OfRaw(r) \in SUBSET Nat
        BY <1>2 DEF OfRaw
      <4>3. m \in OfRaw(r)
        BY <4>1, <4>2, FirstIs
      <4>4. m \in DOMAIN Sections /\ m # Invalid
        BY <1>2, <4>3 DEF OfRaw, Invalid
      <4> HIDE DEF S, m, first, base, r
      <4>5. QED
        BY <2>3, <3>3, <4>1, <4>4 DEF r
    <3>6. QED
      BY <3>4, <3>5
  <2>6. QED
    BY <1>1, <2>4, <2>5
<1>5. QED
  BY <1>3, <1>4

LEMMA Agreeing ==
    ASSUME AddressTypes
    PROVE  ModelsAgree
<1> SUFFICES ASSUME Fits(translating), NEW a \in Offsets
    PROVE  /\ {At("Runtime", ImageToRuntime(a))} = Translate(At("Image", a), "Runtime")
           /\ ImageToRuntime(a) = ApplyRebase(a)
           /\ {At("Image", x) : x \in RuntimeToImage(a)}
                 \subseteq Translate(At("Runtime", a), "Image") \cap {At("Image", RemoveRebase(a))}
           /\ {x.offset : x \in Translate(At("Image", a), "File")} \subseteq ImageToFile(a)
           /\ {x.offset : x \in Translate(At("File", a), "Image")} = FileToImage(a)
           /\ FileToRva(a) \subseteq UNION {SegmentFileToRva(k, a) : k \in DOMAIN Sections}
           /\ Apart(translating) =>
                /\ UNION {SegmentFileToRva(k, a) : k \in DOMAIN Sections} \subseteq FileToRva(a)
                /\ UNION {SegmentRvaToFile(k, a) : k \in DOMAIN Sections} \subseteq RvaToFile(a)
           /\ translating = image =>
                FileToImage(a) = FileToVirtual(image, a) /\ ImageToFile(a) = VirtualToFile(image, a)
  BY Zenon DEF ModelsAgree
<1>1. a \in Nat /\ a \in Int
  BY ImagesAssumption DEF Offsets
<1>2. QED
  BY <1>1, OtherWays, SegmentsAre, BinaryConverts

(* The addresses of a range.                                               *)
Inside(r) == {o \in Offsets : Holds(r, At("RVA", o))}
Stretch(start, end) == [space |-> "RVA", start |-> start, end |-> end]

LEMMA InsideIs ==
    ASSUME NEW start \in Nat, NEW end \in Nat, end <= Width
    PROVE  /\ Inside(Stretch(start, end)) = start .. end - 1
           /\ RangeSize(Stretch(start, end)) = Cardinality(Inside(Stretch(start, end)))
<1>1. \A o : At("RVA", o).space = "RVA" /\ At("RVA", o).offset = o
  BY DEF At
<1>2. Inside(Stretch(start, end)) = {o \in Offsets : o >= start /\ o < end}
  BY <1>1 DEF Inside, Stretch, Holds
<1>3. {o \in Offsets : o >= start /\ o < end} = start .. end - 1
  BY ImagesAssumption DEF Offsets
<1>4. Cardinality(start .. end - 1) = IF start > end - 1 THEN 0 ELSE end - 1 - start + 1
  BY FS_Interval
<1>5. RangeSize(Stretch(start, end)) = IF end > start THEN end - start ELSE 0
  BY DEF RangeSize, Stretch
<1>6. (IF end > start THEN end - start ELSE 0) = IF start > end - 1 THEN 0 ELSE end - 1 - start + 1
  OBVIOUS
<1>7. Inside(Stretch(start, end)) = start .. end - 1
  BY <1>2, <1>3
<1>8. RangeSize(Stretch(start, end)) = Cardinality(start .. end - 1)
  <2>1. \A x, y, u, v : x = u /\ y = v /\ u = v => x = y
    OBVIOUS
  <2>2. QED
    BY <1>4, <1>5, <1>6, <2>1
<1>9. QED
  BY <1>7, <1>8, Zenon

LEMMA IntersectionIs ==
    ASSUME NEW s \in Nat, NEW e \in Nat, e <= Width, NEW t \in Nat, NEW f \in Nat, f <= Width
    PROVE  /\ Inside(Stretch(s, e)) \cap Inside(Stretch(t, f)) =
                 UNION {Inside(r) : r \in Intersection(Stretch(s, e), Stretch(t, f))}
           /\ \A r \in Intersection(Stretch(s, e), Stretch(t, f)) :
                RangeSize(r) = Cardinality(Inside(Stretch(s, e)) \cap Inside(Stretch(t, f)))
<1> DEFINE m == Max({s, t})
           n == Min({e, f})
           both == Intersection(Stretch(s, e), Stretch(t, f))
           common == Inside(Stretch(s, e)) \cap Inside(Stretch(t, f))
<1>1. m = (IF s >= t THEN s ELSE t) /\ n = (IF e <= f THEN e ELSE f)
  BY DEF Max, Min
<1>2. both = IF s < f /\ e > t THEN {Stretch(m, n)} ELSE {}
  <2> DEFINE r == Stretch(s, e)
             q == Stretch(t, f)
  <2>1. Intersects(r, q) <=> s < f /\ e > t
    BY DEF Intersects, Stretch
  <2>2. Stretch(m, n) = [space |-> r.space, start |-> Max({r.start, q.start}), end |-> Min({r.end, q.end})]
    BY DEF Stretch
  <2> HIDE DEF r, q, m, n
  <2>3. {y \in {r} : Intersects(y, q)} = IF Intersects(r, q) THEN {r} ELSE {}
    OBVIOUS
  <2>4. Intersection(r, q) = IF Intersects(r, q) THEN {Stretch(m, n)} ELSE {}
    <3>1. CASE Intersects(r, q)
      BY <2>2, <2>3, <3>1 DEF Intersection
    <3>2. CASE ~Intersects(r, q)
      BY <2>3, <3>2 DEF Intersection
    <3>3. QED
      BY <3>1, <3>2
  <2>5. QED
    BY <2>1, <2>4 DEF r, q
<1> HIDE DEF m, n, both
<1>3. m \in Nat /\ n \in Nat /\ n <= Width
  BY <1>1
<1>4. common = (s .. e - 1) \cap (t .. f - 1)
  BY InsideIs
<1> HIDE DEF common
<1>5. (s .. e - 1) \cap (t .. f - 1) = m .. n - 1
  BY <1>1
<1>6. /\ Inside(Stretch(m, n)) = m .. n - 1
      /\ RangeSize(Stretch(m, n)) = Cardinality(Inside(Stretch(m, n)))
  BY <1>3, InsideIs
<1>7. ~(s < f /\ e > t) => m .. n - 1 = {}
  BY <1>1
<1>8. common = UNION {Inside(r) : r \in both}
  <2>1. CASE s < f /\ e > t
    <3>1. both = {Stretch(m, n)}
      BY <1>2, <2>1
    <3>2. QED
      BY <1>4, <1>5, <1>6, <3>1
  <2>2. CASE ~(s < f /\ e > t)
    <3>1. both = {}
      BY <1>2, <2>2
    <3>2. common = {}
      BY <1>4, <1>5, <1>7, <2>2
    <3>3. QED
      BY <3>1, <3>2
  <2>3. QED
    BY <2>1, <2>2
<1>9. \A r \in both : RangeSize(r) = Cardinality(common)
  BY <1>2, <1>4, <1>5, <1>6
<1>10. QED
  BY <1>8, <1>9 DEF both, common

LEMMA ReadsAgree ==
    ASSUME AddressTypes, translating = image, Fits(image), NEW a \in AllAddresses
    PROVE  /\ IsWritable(a) \/ IsExecutable(a) => IsReadable(a)
           /\ a.space = "Image" => (IsReadable(a) <=> IsValidImageVa(a.offset))
           /\ IF a.space = "File" THEN ReadInto(a, 2) = FirmwareReadInto(a, 2)
              ELSE \A f \in Translate(a, "File") : IsValidFileOffset(f.offset) /\
                      (IsReadable(a) \/ \E k \in DOMAIN Sections :
                                           Sections[k].rawSize > Sections[k].virtualSize)
<1>1. IsWritable(a) \/ IsExecutable(a) => IsReadable(a)
  BY DEF IsWritable, IsExecutable, IsReadable
<1>2. ASSUME a.space = "Image" PROVE IsReadable(a) <=> IsValidImageVa(a.offset)
  <2>1. ToRva(a) = {(a.offset - translating.base) % Width}
    BY <1>2 DEF ToRva
  <2>2. SectionContaining(a) = SectionOf((a.offset - translating.base) % Width)
    BY <1>2, <2>1 DEF SectionContaining
  <2>3. QED
    BY <2>2 DEF IsReadable, IsValidImageVa, IsValidRva
<1>3. ASSUME a.space = "File" PROVE ReadInto(a, 2) = FirmwareReadInto(a, 2)
  <2>1. Translate(a, "File") = {a}
    BY <1>3, TranslateIs
  <2>2. a.offset \in Nat /\ image.fileSize \in Nat
    BY AddressIs DEF AddressTypes, IsImage
  <2>3. CASE a.offset < image.fileSize
    <3>1. {x \in Translate(a, "File") : x.offset < image.fileSize} = {a}
      BY <2>1, <2>3
    <3>2. ReadInto(a, 2) = {a.offset + i : i \in 0 .. Min({2, image.fileSize - a.offset}) - 1}
      BY <3>1 DEF ReadInto
    <3>3. ~(a.offset >= image.fileSize)
      BY <2>2, <2>3
    <3>4. QED
      BY <1>3, <3>2, <3>3 DEF FirmwareReadInto
  <2>4. CASE ~(a.offset < image.fileSize)
    <3>1. {x \in Translate(a, "File") : x.offset < image.fileSize} = {}
      BY <2>1, <2>4
    <3>2. ReadInto(a, 2) = {}
      BY <3>1 DEF ReadInto
    <3>3. a.offset >= image.fileSize
      BY <2>2, <2>4
    <3>4. QED
      BY <3>2, <3>3 DEF FirmwareReadInto
  <2>5. QED
    BY <2>3, <2>4
<1>4. ASSUME a.space # "File", NEW f \in Translate(a, "File")
      PROVE  IsValidFileOffset(f.offset) /\
             (IsReadable(a) \/ \E k \in DOMAIN Sections : Sections[k].rawSize > Sections[k].virtualSize)
  <2>1. PICK rva \in ToRva(a) : f \in FromRva(rva, "File")
    BY <1>4, TranslateIs
  <2>2. f \in {At("File", o) : o \in RvaToFile(rva)}
    BY <2>1 DEF FromRva
  <2>3. PICK o \in RvaToFile(rva) : f = At("File", o)
    BY <2>2
  <2>4. PICK k \in OfRaw(rva) : o = Sections[k].fileOffset + (rva - Sections[k].rva)
    BY RvaToFileIs
  <2>5. /\ k \in DOMAIN Sections /\ rva >= Sections[k].rva /\ rva < Sections[k].rva + Sections[k].rawSize
        /\ rva \in Int
    BY ToRvaIs DEF OfRaw
  <2>6. /\ Sections[k].fileOffset \in Nat /\ Sections[k].rva \in Nat /\ Sections[k].rawSize \in Nat
        /\ Sections[k].virtualSize \in Nat
    BY <2>5, SectionsAre
  <2>7. f.offset < Sections[k].fileOffset + Sections[k].rawSize
    BY <2>3, <2>4, <2>5, <2>6 DEF At
  <2>8. IsValidFileOffset(f.offset)
    BY <2>5, <2>7 DEF IsValidFileOffset
  <2>9. CASE a.space = "Section"
    <3>1. SectionContaining(a) = {a.section}
      BY <2>9 DEF SectionContaining
    <3>2. QED
      BY <2>8, <3>1 DEF IsReadable
  <2>10. CASE a.space # "Section" /\ Sections[k].rawSize <= Sections[k].virtualSize
    <3>1. k \in OfMemory(rva)
      BY <2>5, <2>6, <2>10 DEF OfMemory
    <3>2. PICK n \in SectionOf(rva) : TRUE
      BY <3>1, SectionOfIs
    <3>3. n \in SectionContaining(a)
      BY <2>1, <2>10 DEF SectionContaining
    <3>4. QED
      BY <2>8, <3>3 DEF IsReadable
  <2>11. CASE Sections[k].rawSize > Sections[k].virtualSize
    BY <2>5, <2>8, <2>11
  <2>12. QED
    BY <2>6, <2>9, <2>10, <2>11
<1>5. QED
  BY <1>1, <1>2, <1>3, <1>4

LEMMA RangeOfSection ==
    ASSUME AddressTypes, translating = image, Fits(image), NEW k \in DOMAIN Sections
    PROVE  /\ \E s, e \in Nat : e <= Width /\ SectionRange(Sections[k]) = Stretch(s, e)
           /\ translating.base = 0 =>
                /\ {o \in Offsets : k \in SectionOf(o)} \subseteq Inside(SectionRange(Sections[k]))
                /\ Apart(image) =>
                     Inside(SectionRange(Sections[k])) \subseteq {o \in Offsets : k \in SectionOf(o)}
<1> DEFINE s == Sections[k].virtualAddr
           e == Sections[k].virtualAddr + Sections[k].virtualSize
<1>1. /\ Sections[k].rva \in Nat /\ Sections[k].virtualSize \in Nat
      /\ Sections[k].virtualAddr = translating.base + Sections[k].rva /\ translating.base \in Nat
      /\ translating.base + Sections[k].rva + Sections[k].virtualSize <= Width
  BY SectionsAre, FitsIs
<1>2. s \in Nat /\ e \in Nat /\ e <= Width /\ SectionRange(Sections[k]) = Stretch(s, e)
  BY <1>1, SectionsAre DEF SectionRange, Stretch
<1>3. Inside(SectionRange(Sections[k])) = s .. e - 1
  BY <1>2, InsideIs
<1>4. ASSUME translating.base = 0, NEW o \in Offsets, k \in SectionOf(o)
      PROVE  o \in Inside(SectionRange(Sections[k]))
  <2>1. o \in Nat /\ o >= Sections[k].rva /\ o < Sections[k].rva + Sections[k].virtualSize
    BY <1>4, SectionOfIs, SectionsAre DEF OfMemory, Offsets
  <2>2. QED
    BY <1>1, <1>3, <1>4, <2>1
<1>5. ASSUME translating.base = 0, Apart(image), NEW o \in Inside(SectionRange(Sections[k]))
      PROVE  o \in Offsets /\ k \in SectionOf(o)
  <2>1. o \in Offsets
    BY DEF Inside
  <2>2. /\ o \in Int /\ o >= Sections[k].rva /\ o < Sections[k].rva + Sections[k].virtualSize
    BY <1>1, <1>3, <1>5
  <2>3. k \in OfMemory(o)
    BY <2>2 DEF OfMemory
  <2>4. PICK n \in SectionOf(o) : TRUE
    BY <2>3, SectionOfIs
  <2>5. n = k
    BY <1>5, <2>2, <2>3, SectionOfIs, OneHolds
  <2>6. QED
    BY <2>1, <2>4, <2>5
<1>6. QED
  BY <1>2, <1>4, <1>5

LEMMA RangesAre ==
    ASSUME AddressTypes
    PROVE  RangesAgree
<1> SUFFICES ASSUME translating = image, Fits(image)
    PROVE  /\ \A a \in AllAddresses :
             /\ IsWritable(a) \/ IsExecutable(a) => IsReadable(a)
             /\ a.space = "Image" => (IsReadable(a) <=> IsValidImageVa(a.offset))
             /\ IF a.space = "File" THEN ReadInto(a, 2) = FirmwareReadInto(a, 2)
                ELSE \A f \in Translate(a, "File") : IsValidFileOffset(f.offset) /\
                        (IsReadable(a) \/ \E k \in DOMAIN Sections :
                                             Sections[k].rawSize > Sections[k].virtualSize)
           /\ \A k \in DOMAIN Sections, start, end \in Offsets :
             LET section == SectionRange(Sections[k])
                 other == Stretch(start, end)
                 both == Intersection(section, other)
             IN  /\ Inside(section) \cap Inside(other) = UNION {Inside(r) : r \in both}
                 /\ \A r \in both : RangeSize(r) = Cardinality(Inside(section) \cap Inside(other))
                 /\ RangeSize(other) = Cardinality(Inside(other))
                 /\ translating.base = 0 =>
                      /\ {o \in Offsets : k \in SectionOf(o)} \subseteq Inside(section)
                      /\ Apart(image) => Inside(section) \subseteq {o \in Offsets : k \in SectionOf(o)}
  BY Zenon DEF RangesAgree, Inside, Stretch
<1>1. ASSUME NEW a \in AllAddresses
      PROVE  /\ IsWritable(a) \/ IsExecutable(a) => IsReadable(a)
             /\ a.space = "Image" => (IsReadable(a) <=> IsValidImageVa(a.offset))
             /\ IF a.space = "File" THEN ReadInto(a, 2) = FirmwareReadInto(a, 2)
                ELSE \A f \in Translate(a, "File") : IsValidFileOffset(f.offset) /\
                        (IsReadable(a) \/ \E k \in DOMAIN Sections :
                                             Sections[k].rawSize > Sections[k].virtualSize)
  BY ReadsAgree, Zenon
<1>2. ASSUME NEW k \in DOMAIN Sections, NEW start \in Offsets, NEW end \in Offsets
      PROVE  LET section == SectionRange(Sections[k])
                 other == Stretch(start, end)
                 both == Intersection(section, other)
             IN  /\ Inside(section) \cap Inside(other) = UNION {Inside(r) : r \in both}
                 /\ \A r \in both : RangeSize(r) = Cardinality(Inside(section) \cap Inside(other))
                 /\ RangeSize(other) = Cardinality(Inside(other))
                 /\ translating.base = 0 =>
                      /\ {o \in Offsets : k \in SectionOf(o)} \subseteq Inside(section)
                      /\ Apart(image) => Inside(section) \subseteq {o \in Offsets : k \in SectionOf(o)}
  <2>1. PICK s \in Nat, e \in Nat : e <= Width /\ SectionRange(Sections[k]) = Stretch(s, e)
    BY RangeOfSection
  <2>2. start \in Nat /\ end \in Nat /\ end <= Width
    BY ImagesAssumption DEF Offsets
  <2>3. RangeSize(Stretch(start, end)) = Cardinality(Inside(Stretch(start, end)))
    BY <2>2, InsideIs
  <2>4. /\ Inside(Stretch(s, e)) \cap Inside(Stretch(start, end)) =
              UNION {Inside(r) : r \in Intersection(Stretch(s, e), Stretch(start, end))}
        /\ \A r \in Intersection(Stretch(s, e), Stretch(start, end)) :
             RangeSize(r) = Cardinality(Inside(Stretch(s, e)) \cap Inside(Stretch(start, end)))
    BY <2>1, <2>2, IntersectionIs
  <2>5. translating.base = 0 =>
          /\ {o \in Offsets : k \in SectionOf(o)} \subseteq Inside(SectionRange(Sections[k]))
          /\ Apart(image) =>
               Inside(SectionRange(Sections[k])) \subseteq {o \in Offsets : k \in SectionOf(o)}
    BY RangeOfSection
  <2>6. QED
    BY <2>1, <2>3, <2>4, <2>5
<1>3. QED
  BY <1>1, <1>2, Zenon

(* What an address means is the same whoever is asked, for any images and  *)
(* bases, whichever image the translation was made of: AddressTranslation, *)
(* BaseAddressModel, SegmentMapping, both memory models and AddressRange.  *)
THEOREM AddressesMeanOne == Spec => []AddressesAgree
<1>1. Init => AddressTypes
  <2>1. IsImage(NoImage)
    <3>1. Range(<< >>) = {} /\ << >> \in Seq({})
      BY DEF Range
    <3>2. QED
      BY <3>1, ImagesAssumption DEF IsImage, NoImage, Offsets
  <2>2. 0 \in Offsets
    BY ImagesAssumption DEF Offsets
  <2>3. QED
    BY <2>1, <2>2 DEF Init, AddressInit, AddressTypes
<1>2. AddressTypes /\ [Next]_vars => AddressTypes'
  <2> SUFFICES ASSUME AddressTypes, [Next]_vars PROVE AddressTypes'
    OBVIOUS
  <2>1. CASE AddressNext
    <3>1. ASSUME NEW other \in Images, LoadImage(other) PROVE AddressTypes'
      BY <3>1, ImagesAssumption DEF LoadImage, AddressTypes, IsImage
    <3>2. CASE Initialize
      BY <3>2 DEF Initialize, AddressTypes, IsImage
    <3>3. ASSUME NEW base \in Bases, SetRuntimeBase(base) PROVE AddressTypes'
      BY <3>3, ImagesAssumption DEF SetRuntimeBase, AddressTypes, IsImage
    <3>4. QED
      BY <2>1, <3>1, <3>2, <3>3 DEF AddressNext
  <2>2. CASE UNCHANGED addressVars
    BY <2>2 DEF addressVars, AddressTypes, IsImage
  <2>3. AddressNext \/ UNCHANGED addressVars
    BY Zenon DEF Next, vars
  <2>4. QED
    BY <2>1, <2>2, <2>3
<1>3. AddressTypes => AddressesAgree
  BY Inverting, Agreeing, RangesAre DEF AddressesAgree
<1>4. QED
  BY <1>1, <1>2, <1>3, PTL DEF Spec

-----------------------------------------------------------------------------
(* The index.  A map of lists, and what a loop that lists does to it.      *)
Lists(K, V) == UNION {[D -> Seq(V)] : D \in SUBSET K}

LEMMA ListsAre ==
    ASSUME NEW K, NEW V, NEW map
    PROVE  map \in Lists(K, V) <=> /\ DOMAIN map \subseteq K
                                   /\ map \in [DOMAIN map -> Seq(V)]
<1>1. ASSUME map \in Lists(K, V) PROVE DOMAIN map \subseteq K /\ map \in [DOMAIN map -> Seq(V)]
  <2>1. PICK D \in SUBSET K : map \in [D -> Seq(V)]
    BY <1>1 DEF Lists
  <2>2. DOMAIN map = D
    BY <2>1
  <2>3. QED
    BY <2>1, <2>2
<1>2. ASSUME DOMAIN map \subseteq K, map \in [DOMAIN map -> Seq(V)] PROVE map \in Lists(K, V)
  <2>1. DOMAIN map \in SUBSET K
    BY <1>2
  <2>2. QED
    BY <1>2, <2>1 DEF Lists
<1>3. QED
  BY <1>1, <1>2

LEMMA HeldIs ==
    ASSUME NEW K, NEW V, NEW map \in Lists(K, V), NEW k
    PROVE  Held(map, k) \in Seq(V)
<1>1. map \in [DOMAIN map -> Seq(V)]
  BY ListsAre
<1>2. << >> \in Seq(V)
  BY EmptySeq
<1>3. QED
  BY <1>1, <1>2 DEF Held

(* One more in the lists of some keys.                                     *)
IsPush(K, V, map, keys, x, p) ==
    /\ p \in Lists(K, V) /\ DOMAIN p = keys \cup DOMAIN map
    /\ \A k : Held(p, k) = IF k \in keys THEN Append(Held(map, k), x) ELSE Held(map, k)

LEMMA PushIs ==
    ASSUME NEW K, NEW V, NEW map \in Lists(K, V), NEW keys \in SUBSET K, NEW x \in V
    PROVE  IsPush(K, V, map, keys, x, Push(map, keys, x))
<1> DEFINE p == Push(map, keys, x)
<1>1. DOMAIN map \subseteq K /\ map \in [DOMAIN map -> Seq(V)]
  BY ListsAre
<1>2. /\ DOMAIN p = keys \cup DOMAIN map
      /\ \A k \in keys \cup DOMAIN map : p[k] = IF k \in keys THEN Append(Held(map, k), x) ELSE map[k]
      /\ p = [k \in keys \cup DOMAIN map |-> p[k]]
  BY DEF Push
<1> HIDE DEF p
<1>3. ASSUME NEW k \in DOMAIN p PROVE p[k] \in Seq(V)
  <2>1. CASE k \in keys
    <3>1. Held(map, k) \in Seq(V)
      BY HeldIs
    <3>2. Append(Held(map, k), x) \in Seq(V)
      BY <3>1, AppendProperties
    <3>3. QED
      BY <1>2, <2>1, <3>2
  <2>2. CASE k \notin keys
    BY <1>1, <1>2, <2>2
  <2>3. QED
    BY <2>1, <2>2
<1>4. p \in Lists(K, V)
  <2>1. DOMAIN p \subseteq K /\ p \in [DOMAIN p -> Seq(V)]
    BY <1>1, <1>2, <1>3
  <2>2. QED
    BY <2>1, ListsAre
<1>5. ASSUME NEW k PROVE Held(p, k) = IF k \in keys THEN Append(Held(map, k), x) ELSE Held(map, k)
  BY <1>2 DEF Held
<1>6. QED
  BY <1>2, <1>4, <1>5 DEF IsPush, p

(* The maps of the rounds of the loop.                                     *)
Pushing(K, V, map, list, keys, g) ==
    /\ g \in [0 .. Len(list) -> Lists(K, V)]
    /\ g[0] = map /\ PushAll(map, list, keys) = g[Len(list)]
    /\ \A n \in 1 .. Len(list) : g[n] = Push(g[n - 1], keys[n], list[n])

LEMMA PushedBy ==
    ASSUME NEW K, NEW V, NEW map \in Lists(K, V), NEW list \in Seq(V),
           NEW keys \in [1 .. Len(list) -> SUBSET K]
    PROVE  \E g : Pushing(K, V, map, list, keys, g)
<1> DEFINE N == Len(list)
           S == Lists(K, V)
           Round(m, n) == Push(m, keys[n], list[n])
           h == [x \in S \X (1 .. N) |-> Round(x[1], x[2])]
           Def(f) == f = [n \in 0 .. N |-> IF n = 0 THEN map ELSE Round(f[n - 1], n)]
           g == CHOOSE f : Def(f)
<1>1. N \in Nat /\ \A n \in 1 .. N : list[n] \in V /\ keys[n] \in SUBSET K
  BY LenProperties, ElementOfSeq
<1>2. \A m \in S, n \in 1 .. N : Round(m, n) \in S
  BY <1>1, PushIs DEF IsPush
<1>4. PushAll(map, list, keys) = g[N]
  BY DEF PushAll
<1> HIDE DEF Round
<1>5. h \in [S \X (1 .. N) -> S]
  BY <1>2
<1>6. \E f \in [0 .. N -> S] : Def(f)
  <2>1. PICK f : Iterates(f, S, map, N, h)
    <3> HIDE DEF h, N
    <3>1. map \in S
      OBVIOUS
    <3> HIDE DEF S
    <3>2. QED
      BY <1>1, <1>5, <3>1, Recursion
  <2> HIDE DEF S, N
  <2>2. ASSUME NEW n \in 0 .. N
        PROVE  f[n] = IF n = 0 THEN map ELSE Round(f[n - 1], n)
    <3>1. CASE n = 0
      BY <2>1, <3>1 DEF Iterates
    <3>2. CASE n # 0
      <4>1. n \in 1 .. N /\ n - 1 \in 0 .. N
        BY <1>1, <3>2
      <4>2. f[n - 1] \in S
        BY <2>1, <4>1 DEF Iterates
      <4>3. <<f[n - 1], n>> \in S \X (1 .. N)
        BY <4>1, <4>2
      <4>4. h[<<f[n - 1], n>>] = Round(f[n - 1], n)
        BY <4>3
      <4>5. QED
        BY <2>1, <3>2, <4>1, <4>4 DEF Iterates
    <3>3. QED
      BY <3>1, <3>2
  <2>3. f = [n \in 0 .. N |-> IF n = 0 THEN map ELSE Round(f[n - 1], n)]
    BY <2>1, <2>2 DEF Iterates
  <2>4. f \in [0 .. N -> S]
    BY <2>1 DEF Iterates
  <2>5. QED
    BY <2>3, <2>4
<1>7. Def(g)
  BY <1>6
<1> HIDE DEF g
<1>8. g[0] = map /\ \A n \in 1 .. N : g[n] = Push(g[n - 1], keys[n], list[n])
  <2>1. 0 \in 0 .. N /\ \A n \in 1 .. N : n \in 0 .. N /\ n # 0
    BY <1>1
  <2>2. ASSUME NEW n \in 0 .. N
        PROVE  g[n] = IF n = 0 THEN map ELSE Round(g[n - 1], n)
    BY <1>7
  <2>3. QED
    BY <2>1, <2>2 DEF Round
<1>9. g \in [0 .. N -> S]
  <2> DEFINE P == {n \in 0 .. N : g[n] \in S}
  <2>1. 0 \in P
    BY <1>1, <1>8
  <2>2. ASSUME NEW n \in 1 .. N, n - 1 \in P PROVE n \in P
    <3>1. Round(g[n - 1], n) \in S
      BY <1>2, <2>2
    <3>2. QED
      BY <1>8, <3>1 DEF Round
  <2> HIDE DEF P
  <2>3. \A n \in 0 .. N : n \in P
    BY <1>1, <2>1, <2>2, Induction
  <2>4. \A n \in 0 .. N : g[n] \in S
    BY <2>3 DEF P
  <2>5. DOMAIN g = 0 .. N /\ g = [n \in 0 .. N |-> g[n]]
    BY <1>7
  <2>6. QED
    BY <2>4, <2>5
<1>10. QED
  BY <1>4, <1>8, <1>9 DEF Pushing

With(keys, k, n) == {m \in 1 .. n : k \in keys[m]}

LEMMA OneMoreWith ==
    ASSUME NEW keys, NEW k, NEW n \in Nat, n > 0
    PROVE  /\ With(keys, k, n) = With(keys, k, n - 1) \cup (IF k \in keys[n] THEN {n} ELSE {})
           /\ IsFiniteSet(With(keys, k, n - 1)) /\ Cardinality(With(keys, k, n - 1)) \in Nat
           /\ Cardinality(With(keys, k, n)) =
                 Cardinality(With(keys, k, n - 1)) + (IF k \in keys[n] THEN 1 ELSE 0)
<1>1. With(keys, k, n) = With(keys, k, n - 1) \cup (IF k \in keys[n] THEN {n} ELSE {})
  <2>1. 1 .. n = (1 .. n - 1) \cup {n}
    OBVIOUS
  <2>2. CASE k \in keys[n]
    BY <2>1, <2>2 DEF With
  <2>3. CASE k \notin keys[n]
    BY <2>1, <2>3 DEF With
  <2>4. QED
    BY <2>2, <2>3
<1>2. IsFiniteSet(With(keys, k, n - 1)) /\ n \notin With(keys, k, n - 1)
  <2>1. IsFiniteSet(1 .. n - 1) /\ n \notin 1 .. n - 1
    BY FS_Interval
  <2>2. With(keys, k, n - 1) \subseteq 1 .. n - 1
    BY DEF With
  <2>3. QED
    BY <2>1, <2>2, FS_Subset
<1>3. Cardinality(With(keys, k, n - 1)) \in Nat
  BY <1>2, FS_CardinalityType
<1>4. CASE k \in keys[n]
  <2>1. Cardinality(With(keys, k, n - 1) \cup {n}) = Cardinality(With(keys, k, n - 1)) + 1
    BY <1>2, FS_AddElement
  <2>2. QED
    BY <1>1, <1>2, <1>3, <1>4, <2>1
<1>5. CASE k \notin keys[n]
  BY <1>1, <1>2, <1>3, <1>5
<1>6. QED
  BY <1>4, <1>5

LEMMA SetOfAppended ==
    ASSUME NEW V, NEW s \in Seq(V), NEW x \in V
    PROVE  ToSet(Append(s, x)) = ToSet(s) \cup {x} /\ Len(Append(s, x)) = Len(s) + 1
<1> DEFINE t == Append(s, x)
<1>1. /\ Len(s) \in Nat /\ DOMAIN s = 1 .. Len(s) /\ DOMAIN t = 1 .. Len(s) + 1
      /\ t[Len(s) + 1] = x /\ \A i \in 1 .. Len(s) : t[i] = s[i] /\ Len(t) = Len(s) + 1
  BY LenProperties, AppendProperties
<1>2. Len(t) = Len(s) + 1
  BY AppendProperties
<1> HIDE DEF t
<1>3. 1 .. Len(s) + 1 = (1 .. Len(s)) \cup {Len(s) + 1}
  BY <1>1
<1>4. QED
  BY <1>1, <1>2, <1>3 DEF ToSet, t

(* What the loop has listed under a key after n rounds.                    *)
Pushed(map, list, keys, n, p) ==
    /\ DOMAIN p = DOMAIN map \cup UNION {keys[m] : m \in 1 .. n}
    /\ \A k : /\ ToSet(Held(p, k)) = ToSet(Held(map, k)) \cup {list[m] : m \in With(keys, k, n)}
              /\ Len(Held(p, k)) = Len(Held(map, k)) + Cardinality(With(keys, k, n))

LEMMA NextPushed ==
    ASSUME NEW K, NEW V, NEW map, NEW list, NEW n \in Nat, n > 0, NEW p \in Lists(K, V),
           NEW keys, keys[n] \in SUBSET K, list[n] \in V, map \in Lists(K, V),
           Pushed(map, list, keys, n - 1, p)
    PROVE  Pushed(map, list, keys, n, Push(p, keys[n], list[n]))
<1> DEFINE q == Push(p, keys[n], list[n])
<1>0. keys[n] \in SUBSET K /\ list[n] \in V
  OBVIOUS
<1>1. /\ q \in Lists(K, V) /\ DOMAIN q = keys[n] \cup DOMAIN p
      /\ \A k : Held(q, k) = IF k \in keys[n] THEN Append(Held(p, k), list[n]) ELSE Held(p, k)
  <2>1. IsPush(K, V, p, keys[n], list[n], q)
    BY <1>0, PushIs
  <2> HIDE DEF q
  <2>2. QED
    BY <2>1 DEF IsPush
<1> HIDE DEF q
<1>2. DOMAIN q = DOMAIN map \cup UNION {keys[m] : m \in 1 .. n}
  <2>1. 1 .. n = (1 .. n - 1) \cup {n}
    OBVIOUS
  <2>2. QED
    BY <1>1, <2>1 DEF Pushed
<1>3. ASSUME NEW k
      PROVE  /\ ToSet(Held(q, k)) = ToSet(Held(map, k)) \cup {list[m] : m \in With(keys, k, n)}
             /\ Len(Held(q, k)) = Len(Held(map, k)) + Cardinality(With(keys, k, n))
  <2>1. /\ ToSet(Held(p, k)) = ToSet(Held(map, k)) \cup {list[m] : m \in With(keys, k, n - 1)}
        /\ Len(Held(p, k)) = Len(Held(map, k)) + Cardinality(With(keys, k, n - 1))
    BY DEF Pushed
  <2>2. Held(p, k) \in Seq(V) /\ Len(Held(map, k)) \in Nat
    BY HeldIs, LenProperties
  <2>3. /\ Cardinality(With(keys, k, n - 1)) \in Nat
        /\ With(keys, k, n) = With(keys, k, n - 1) \cup (IF k \in keys[n] THEN {n} ELSE {})
        /\ Cardinality(With(keys, k, n)) =
              Cardinality(With(keys, k, n - 1)) + (IF k \in keys[n] THEN 1 ELSE 0)
    BY OneMoreWith
  <2>4. CASE k \in keys[n]
    <3>1. /\ ToSet(Held(q, k)) = ToSet(Held(p, k)) \cup {list[n]}
          /\ Len(Held(q, k)) = Len(Held(p, k)) + 1
      <4>1. Held(q, k) = Append(Held(p, k), list[n])
        BY <1>1, <2>4
      <4>2. QED
        BY <1>0, <2>2, <4>1, SetOfAppended
    <3>2. /\ With(keys, k, n) = With(keys, k, n - 1) \cup {n}
          /\ Cardinality(With(keys, k, n)) = Cardinality(With(keys, k, n - 1)) + 1
      BY <2>3, <2>4
    <3>3. Len(Held(q, k)) = Len(Held(map, k)) + Cardinality(With(keys, k, n))
      BY <2>1, <2>2, <2>3, <3>1, <3>2
    <3>4. ToSet(Held(q, k)) = ToSet(Held(map, k)) \cup {list[m] : m \in With(keys, k, n)}
      BY <2>1, <3>1, <3>2
    <3>5. QED
      BY <3>3, <3>4
  <2>5. CASE k \notin keys[n]
    <3>1. With(keys, k, n) = With(keys, k, n - 1)
      BY <2>3, <2>5
    <3>2. QED
      BY <1>1, <2>1, <2>5, <3>1
  <2>6. QED
    BY <2>4, <2>5
<1>4. QED
  BY <1>2, <1>3 DEF Pushed, q

(* A loop that lists: under each key what was there, and what has the key. *)
LEMMA AllPushed ==
    ASSUME NEW K, NEW V, NEW map \in Lists(K, V), NEW list \in Seq(V),
           NEW keys \in [1 .. Len(list) -> SUBSET K]
    PROVE  /\ PushAll(map, list, keys) \in Lists(K, V)
           /\ Pushed(map, list, keys, Len(list), PushAll(map, list, keys))
<1> DEFINE N == Len(list)
<1>1. N \in Nat /\ \A n \in 1 .. N : list[n] \in V /\ keys[n] \in SUBSET K
  BY LenProperties, ElementOfSeq
<1>2. PICK g : Pushing(K, V, map, list, keys, g)
  BY PushedBy
<1> HIDE DEF N
<1>3. /\ g \in [0 .. N -> Lists(K, V)]
      /\ g[0] = map /\ PushAll(map, list, keys) = g[N]
      /\ \A n \in 1 .. N : g[n] = Push(g[n - 1], keys[n], list[n])
  BY <1>2 DEF Pushing, N
<1> DEFINE P == {n \in 0 .. N : Pushed(map, list, keys, n, g[n])}
<1>4. 0 \in P
  <2>1. \A k : With(keys, k, 0) = {}
    BY DEF With
  <2>2. Cardinality({}) = 0
    BY FS_EmptySet
  <2>3. \A k : Len(Held(map, k)) \in Nat
    BY HeldIs, LenProperties
  <2>4. UNION {keys[m] : m \in 1 .. 0} = {}
    OBVIOUS
  <2>5. Pushed(map, list, keys, 0, map)
    <3>1. ASSUME NEW k
          PROVE  /\ ToSet(Held(map, k)) =
                       ToSet(Held(map, k)) \cup {list[m] : m \in With(keys, k, 0)}
                 /\ Len(Held(map, k)) = Len(Held(map, k)) + Cardinality(With(keys, k, 0))
      <4>1. {list[m] : m \in With(keys, k, 0)} = {} /\ Cardinality(With(keys, k, 0)) = 0
        BY <2>1, <2>2
      <4>2. Len(Held(map, k)) \in Nat
        BY <2>3
      <4> DEFINE h == Held(map, k)
                 W == With(keys, k, 0)
      <4>3. {list[m] : m \in W} = {} /\ Cardinality(W) = 0 /\ Len(h) \in Nat
        BY <4>1, <4>2
      <4>4. ToSet(h) = ToSet(h) \cup {list[m] : m \in W}
        BY <4>3, Zenon
      <4> HIDE DEF h, W
      <4>5. Len(h) = Len(h) + Cardinality(W)
        BY <4>3
      <4>6. QED
        BY <4>4, <4>5 DEF h, W
    <3>2. QED
      BY <2>4, <3>1 DEF Pushed
  <2>6. QED
    BY <1>1, <1>3, <2>5
<1>5. ASSUME NEW n \in 1 .. N, n - 1 \in P PROVE n \in P
  <2>1. /\ n \in Nat /\ n > 0 /\ n - 1 \in 0 .. N /\ g[n - 1] \in Lists(K, V)
        /\ Pushed(map, list, keys, n - 1, g[n - 1]) /\ n \in 0 .. N
    BY <1>1, <1>3, <1>5
  <2>2. Pushed(map, list, keys, n, Push(g[n - 1], keys[n], list[n]))
    BY <1>1, <2>1, NextPushed
  <2>3. QED
    BY <1>3, <2>1, <2>2
<1>6. N \in P
  <2> HIDE DEF P
  <2>1. \A n \in 0 .. N : n \in P
    BY <1>1, <1>4, <1>5, Induction
  <2>2. QED
    BY <1>1, <2>1
<1>7. QED
  BY <1>1, <1>3, <1>6 DEF N

(* A loop that overwrites leaves the last of each key.                     *)
Maps(K) == UNION {[D -> Nat] : D \in SUBSET K}

LEMMA MapsAre ==
    ASSUME NEW K, NEW map
    PROVE  map \in Maps(K) <=> DOMAIN map \subseteq K /\ map \in [DOMAIN map -> Nat]
<1>1. ASSUME map \in Maps(K) PROVE DOMAIN map \subseteq K /\ map \in [DOMAIN map -> Nat]
  <2>1. PICK D \in SUBSET K : map \in [D -> Nat]
    BY <1>1 DEF Maps
  <2>2. DOMAIN map = D
    BY <2>1
  <2>3. QED
    BY <2>1, <2>2
<1>2. ASSUME DOMAIN map \subseteq K, map \in [DOMAIN map -> Nat] PROVE map \in Maps(K)
  <2>1. DOMAIN map \in SUBSET K
    BY <1>2
  <2>2. QED
    BY <1>2, <2>1 DEF Maps
<1>3. QED
  BY <1>1, <1>2

IsBind(K, map, key, id, b) ==
    /\ b \in Maps(K) /\ DOMAIN b = {key} \cup DOMAIN map /\ b[key] = id
    /\ \A k \in DOMAIN map : k # key => b[k] = map[k]

LEMMA BindIs ==
    ASSUME NEW K, NEW map \in Maps(K), NEW key \in K, NEW id \in Nat
    PROVE  IsBind(K, map, key, id, Bind(map, key, id))
<1> DEFINE b == Bind(map, key, id)
<1>1. DOMAIN map \subseteq K /\ map \in [DOMAIN map -> Nat]
  BY MapsAre
<1>2. /\ DOMAIN b = {key} \cup DOMAIN map /\ b[key] = id
      /\ \A k \in DOMAIN map : k # key => b[k] = map[k]
      /\ b = [k \in {key} \cup DOMAIN map |-> b[k]]
  BY DEF Bind
<1> HIDE DEF b
<1>3. DOMAIN b \subseteq K /\ b \in [DOMAIN b -> Nat]
  BY <1>1, <1>2
<1>4. b \in Maps(K)
  BY <1>3, MapsAre
<1>5. QED
  BY <1>2, <1>4 DEF IsBind, b

Binding(K, map, keys, g) ==
    /\ g[0] = map /\ BindAll(map, keys) = g[Len(keys)]
    /\ \A n \in 1 .. Len(keys) : g[n] = Bind(g[n - 1], keys[n], n)

LEMMA BoundBy ==
    ASSUME NEW K, NEW map \in Maps(K), NEW keys \in Seq(K)
    PROVE  \E g : Binding(K, map, keys, g)
<1> DEFINE N == Len(keys)
           S == Maps(K)
           Round(m, n) == Bind(m, keys[n], n)
           h == [x \in S \X (1 .. N) |-> Round(x[1], x[2])]
           Def(f) == f = [n \in 0 .. N |-> IF n = 0 THEN map ELSE Round(f[n - 1], n)]
           g == CHOOSE f : Def(f)
<1>1. N \in Nat /\ \A n \in 1 .. N : keys[n] \in K
  BY LenProperties, ElementOfSeq
<1>2. ASSUME NEW m \in S, NEW n \in 1 .. N PROVE Round(m, n) \in S
  <2>1. keys[n] \in K /\ n \in Nat
    BY <1>1
  <2>2. QED
    BY <2>1, BindIs DEF IsBind
<1>4. BindAll(map, keys) = g[N]
  BY DEF BindAll
<1> HIDE DEF Round
<1>5. h \in [S \X (1 .. N) -> S]
  BY <1>2
<1>6. \E f : Def(f)
  <2>1. PICK f : Iterates(f, S, map, N, h)
    <3> HIDE DEF h, N
    <3>1. map \in S
      OBVIOUS
    <3> HIDE DEF S
    <3>2. QED
      BY <1>1, <1>5, <3>1, Recursion
  <2> HIDE DEF S, N
  <2>2. ASSUME NEW n \in 0 .. N
        PROVE  f[n] = IF n = 0 THEN map ELSE Round(f[n - 1], n)
    <3>1. CASE n = 0
      BY <2>1, <3>1 DEF Iterates
    <3>2. CASE n # 0
      <4>1. n \in 1 .. N /\ n - 1 \in 0 .. N
        BY <1>1, <3>2
      <4>2. f[n - 1] \in S
        BY <2>1, <4>1 DEF Iterates
      <4>3. <<f[n - 1], n>> \in S \X (1 .. N)
        BY <4>1, <4>2
      <4>4. h[<<f[n - 1], n>>] = Round(f[n - 1], n)
        BY <4>3
      <4>5. QED
        BY <2>1, <3>2, <4>1, <4>4 DEF Iterates
    <3>3. QED
      BY <3>1, <3>2
  <2>3. f = [n \in 0 .. N |-> IF n = 0 THEN map ELSE Round(f[n - 1], n)]
    BY <2>1, <2>2 DEF Iterates
  <2>4. QED
    BY <2>3
<1>7. Def(g)
  BY <1>6
<1> HIDE DEF g
<1>8. g[0] = map /\ \A n \in 1 .. N : g[n] = Bind(g[n - 1], keys[n], n)
  <2>1. 0 \in 0 .. N /\ \A n \in 1 .. N : n \in 0 .. N /\ n # 0
    BY <1>1
  <2>2. ASSUME NEW n \in 0 .. N
        PROVE  g[n] = IF n = 0 THEN map ELSE Round(g[n - 1], n)
    BY <1>7
  <2>3. QED
    BY <2>1, <2>2 DEF Round
<1>9. QED
  BY <1>4, <1>8 DEF Binding

(* The last of each key among the first n, in a map that had others.       *)
Bound(K, map, keys, n, b) ==
    /\ b \in Maps(K) /\ DOMAIN b = DOMAIN map \cup {keys[m] : m \in 1 .. n}
    /\ \A m \in 1 .. n : b[keys[m]] \in 1 .. n /\ keys[b[keys[m]]] = keys[m] /\ m <= b[keys[m]]

LEMMA NextBound ==
    ASSUME NEW K, NEW map, NEW keys, NEW n \in Nat, n > 0, keys[n] \in K, NEW b,
           Bound(K, map, keys, n - 1, b)
    PROVE  Bound(K, map, keys, n, Bind(b, keys[n], n))
<1> DEFINE c == Bind(b, keys[n], n)
<1>1. b \in Maps(K) /\ DOMAIN b = DOMAIN map \cup {keys[m] : m \in 1 .. n - 1}
  BY DEF Bound
<1>2. /\ c \in Maps(K) /\ DOMAIN c = {keys[n]} \cup DOMAIN b /\ c[keys[n]] = n
      /\ \A k \in DOMAIN b : k # keys[n] => c[k] = b[k]
  <2>1. keys[n] \in K /\ n \in Nat
    OBVIOUS
  <2>2. IsBind(K, b, keys[n], n, c)
    BY <1>1, <2>1, BindIs
  <2> HIDE DEF c
  <2>3. QED
    BY <2>2 DEF IsBind
<1> HIDE DEF c
<1>3. 1 .. n = (1 .. n - 1) \cup {n}
  OBVIOUS
<1>4. DOMAIN c = DOMAIN map \cup {keys[m] : m \in 1 .. n}
  BY <1>1, <1>2, <1>3
<1>5. ASSUME NEW m \in 1 .. n
      PROVE  c[keys[m]] \in 1 .. n /\ keys[c[keys[m]]] = keys[m] /\ m <= c[keys[m]]
  <2>1. CASE keys[m] = keys[n]
    BY <1>2, <2>1
  <2>2. CASE keys[m] # keys[n]
    <3>1. m \in 1 .. n - 1 /\ keys[m] \in DOMAIN b
      BY <1>1, <1>3, <2>2
    <3>2. c[keys[m]] = b[keys[m]]
      BY <1>2, <2>2, <3>1
    <3>3. b[keys[m]] \in 1 .. n - 1 /\ keys[b[keys[m]]] = keys[m] /\ m <= b[keys[m]]
      BY <3>1 DEF Bound
    <3>4. QED
      BY <3>2, <3>3
  <2>3. QED
    BY <2>1, <2>2
<1>6. QED
  BY <1>2, <1>4, <1>5 DEF Bound, c

LEMMA BoundIsLatest ==
    ASSUME NEW K, NEW keys \in Seq(K), NEW map, map \in [DOMAIN map -> Nat],
           DOMAIN map \subseteq {keys[n] : n \in 1 .. Len(keys)}
    PROVE  IsLatest(BindAll(map, keys), keys)
<1> DEFINE N == Len(keys)
<1>1. /\ N \in Nat /\ DOMAIN keys = 1 .. N /\ \A n \in 1 .. N : keys[n] \in K
  BY LenProperties, ElementOfSeq
<1>2. map \in Maps(K)
  BY <1>1, MapsAre
<1>3. PICK g : Binding(K, map, keys, g)
  BY <1>2, BoundBy
<1> HIDE DEF N
<1>4. /\ g[0] = map /\ BindAll(map, keys) = g[N]
      /\ \A n \in 1 .. N : g[n] = Bind(g[n - 1], keys[n], n)
  BY <1>3 DEF Binding, N
<1> DEFINE P == {n \in 0 .. N : Bound(K, map, keys, n, g[n])}
<1>5. 0 \in P
  <2>0. 1 .. 0 = {}
    OBVIOUS
  <2>1. DOMAIN map = DOMAIN map \cup {keys[m] : m \in 1 .. 0}
    BY <2>0, Zenon
  <2>3. \A m \in 1 .. 0 : FALSE
    OBVIOUS
  <2>4. Bound(K, map, keys, 0, map)
    BY <1>2, <2>1, <2>3, Zenon DEF Bound
  <2>2. QED
    BY <1>1, <1>4, <2>4
<1>6. ASSUME NEW n \in 1 .. N, n - 1 \in P PROVE n \in P
  <2>1. n \in Nat /\ n > 0 /\ n \in 0 .. N /\ Bound(K, map, keys, n - 1, g[n - 1])
    BY <1>1, <1>6
  <2>2. Bound(K, map, keys, n, Bind(g[n - 1], keys[n], n))
    BY <1>1, <2>1, NextBound
  <2>3. QED
    BY <1>4, <2>1, <2>2
<1>7. N \in P
  <2> HIDE DEF P
  <2>1. QED
    BY <1>1, <1>5, <1>6, Induction
<1> DEFINE b == BindAll(map, keys)
<1>8. Bound(K, map, keys, N, b)
  BY <1>4, <1>7
<1> HIDE DEF b
<1>9. DOMAIN b = {keys[n] : n \in 1 .. N} /\ b \in [DOMAIN b -> Nat]
  BY <1>8, MapsAre DEF Bound, N
<1>10. \A n \in 1 .. N : b[keys[n]] \in 1 .. N /\ keys[b[keys[n]]] = keys[n] /\ n <= b[keys[n]]
  BY <1>8 DEF Bound
<1>11. b \in [{keys[n] : n \in 1 .. N} -> 1 .. N]
  BY <1>9, <1>10
<1>12. QED
  BY <1>1, <1>10, <1>11 DEF IsLatest, b

LEMMA LatestIsOne ==
    ASSUME NEW K, NEW keys \in Seq(K), NEW f, NEW g, IsLatest(f, keys), IsLatest(g, keys)
    PROVE  f = g
<1> DEFINE N == Len(keys)
           T == {keys[n] : n \in 1 .. N}
<1>1. N \in Nat /\ DOMAIN keys = 1 .. N
  BY LenProperties
<1> HIDE DEF N
<1>2. f \in [T -> 1 .. N] /\ g \in [T -> 1 .. N]
  BY <1>1 DEF IsLatest
<1>3. ASSUME NEW n \in 1 .. N PROVE f[keys[n]] = g[keys[n]]
  <2>1. keys[n] \in T
    OBVIOUS
  <2>2. f[keys[n]] \in 1 .. N /\ g[keys[n]] \in 1 .. N
    BY <1>2, <2>1
  <2>3. keys[f[keys[n]]] = keys[n] /\ keys[g[keys[n]]] = keys[n]
    BY <1>1 DEF IsLatest
  <2>4. \A m \in 1 .. N : m <= f[keys[m]] /\ m <= g[keys[m]]
    BY <1>1 DEF IsLatest
  <2>5. f[keys[n]] <= g[keys[n]]
    BY <2>2, <2>3, <2>4
  <2>6. g[keys[n]] <= f[keys[n]]
    BY <2>2, <2>3, <2>4
  <2>7. QED
    BY <1>1, <2>2, <2>5, <2>6
<1>4. \A k \in T : f[k] = g[k]
  BY <1>3
<1> HIDE DEF T
<1>5. QED
  BY <1>2, <1>4

(* Lists put behind each other.                                            *)
Flattening(V, seqs, g) ==
    /\ g \in [0 .. Len(seqs) -> Seq(V)] /\ g[0] = << >> /\ FlattenSeq(seqs) = g[Len(seqs)]
    /\ \A n \in 1 .. Len(seqs) : g[n] = g[n - 1] \o seqs[n]

LEMMA FlattenedBy ==
    ASSUME NEW V, NEW seqs \in Seq(Seq(V))
    PROVE  \E g : Flattening(V, seqs, g)
<1> DEFINE N == Len(seqs)
           S == Seq(V)
           Round(s, n) == s \o seqs[n]
           h == [x \in S \X (1 .. N) |-> Round(x[1], x[2])]
           Def(f) == f = [i \in 1 .. N |-> IF i = 1 THEN seqs[i] ELSE Round(f[i - 1], i)]
           c == CHOOSE f : Def(f)
<1>1. N \in Nat /\ \A n \in 1 .. N : seqs[n] \in S
  BY LenProperties, ElementOfSeq
<1>2. ASSUME NEW s \in S, NEW n \in 1 .. N PROVE Round(s, n) \in S
  BY <1>1, ConcatProperties
<1>3. << >> \in S /\ \A s \in S : << >> \o s = s
  BY EmptySeq, ConcatEmptySeq
<1>4. N # 0 => FlattenSeq(seqs) = c[N]
  BY DEF FlattenSeq
<1>5. N = 0 => FlattenSeq(seqs) = << >>
  <2>1. ASSUME N = 0 PROVE seqs = << >>
    BY <2>1, EmptySeq
  <2>2. QED
    BY <2>1 DEF FlattenSeq
<1>6. h \in [S \X (1 .. N) -> S]
  BY <1>2
<1>7. PICK f : Iterates(f, S, << >>, N, h)
  <2> HIDE DEF h, N, S
  <2>1. QED
    BY <1>1, <1>3, <1>6, Recursion
<1>8. f \in [0 .. N -> S] /\ f[0] = << >>
  BY <1>7 DEF Iterates
<1>9. ASSUME NEW n \in 1 .. N PROVE f[n] = Round(f[n - 1], n)
  <2>1. n - 1 \in 0 .. N
    BY <1>1
  <2>2. f[n - 1] \in S
    BY <1>8, <2>1
  <2>3. <<f[n - 1], n>> \in S \X (1 .. N)
    BY <2>2
  <2>4. h[<<f[n - 1], n>>] = Round(f[n - 1], n)
    BY <2>3
  <2>5. QED
    BY <1>7, <2>4 DEF Iterates
<1> HIDE DEF N, S, h
<1>10. ASSUME N # 0 PROVE c[N] = f[N]
  <2> DEFINE d == [i \in 1 .. N |-> f[i]]
  <2>1. ASSUME NEW i \in 1 .. N PROVE d[i] = IF i = 1 THEN seqs[i] ELSE Round(d[i - 1], i)
    <3>1. CASE i = 1
      <4>0. 1 \in 1 .. N /\ 1 - 1 = 0
        BY <3>1
      <4>1. f[1] = Round(f[0], 1)
        <5>1. f[1] = Round(f[1 - 1], 1)
          BY <1>9, <4>0
        <5>2. QED
          BY <4>0, <5>1
      <4>2. seqs[1] \in S
        BY <1>1, <4>0
      <4>3. f[1] = seqs[1]
        BY <1>3, <1>8, <4>1, <4>2
      <4>4. QED
        BY <3>1, <4>3
    <3>2. CASE i # 1
      <4>1. i - 1 \in 1 .. N
        BY <1>1, <3>2
      <4>2. d[i] = f[i] /\ d[i - 1] = f[i - 1]
        BY <4>1
      <4>3. f[i] = Round(f[i - 1], i)
        BY <1>9
      <4> HIDE DEF d, Round
      <4>4. QED
        BY <3>2, <4>2, <4>3
    <3>3. QED
      BY <3>1, <3>2
  <2>2. Def(d)
    <3>1. d = [i \in 1 .. N |-> d[i]]
      OBVIOUS
    <3> HIDE DEF d, Round
    <3>2. QED
      BY <2>1, <3>1
  <2>3. Def(c)
    BY <2>2
  <2> HIDE DEF c
  <2>4. ASSUME NEW i \in 1 .. N PROVE c[i] = IF i = 1 THEN seqs[i] ELSE Round(c[i - 1], i)
    BY <2>3
  <2> DEFINE P == {n \in 0 .. N : n = 0 \/ c[n] = f[n]}
  <2>5. 0 \in P
    BY <1>1
  <2>6. ASSUME NEW n \in 1 .. N, n - 1 \in P PROVE n \in P
    <3>1. n \in 0 .. N /\ d[n] = f[n]
      BY <1>1
    <3>2. CASE n = 1
      <4>1. d[n] = seqs[n] /\ c[n] = seqs[n]
        BY <2>1, <2>4, <3>2
      <4>2. QED
        BY <3>1, <4>1
    <3>3. CASE n # 1
      <4>1. c[n - 1] = f[n - 1]
        BY <2>6, <3>3
      <4>2. c[n] = Round(c[n - 1], n)
        BY <2>4, <3>3
      <4>3. f[n] = Round(f[n - 1], n)
        BY <1>9
      <4> HIDE DEF Round, d
      <4>4. QED
        BY <3>1, <4>1, <4>2, <4>3
    <3>4. QED
      BY <3>2, <3>3
  <2>7. \A n \in 0 .. N : n \in P
    <3> HIDE DEF P
    <3>1. QED
      BY <1>1, <2>5, <2>6, Induction
  <2>8. N \in P
    BY <1>1, <2>7
  <2>9. QED
    BY <1>10, <2>8
<1>11. FlattenSeq(seqs) = f[N]
  BY <1>4, <1>5, <1>8, <1>10
<1>12. Flattening(V, seqs, f)
  BY <1>8, <1>9, <1>11 DEF Flattening, N, S
<1>13. QED
  BY <1>12

LEMMA SetOfConcat ==
    ASSUME NEW V, NEW s \in Seq(V), NEW t \in Seq(V)
    PROVE  s \o t \in Seq(V) /\ ToSet(s \o t) = ToSet(s) \cup ToSet(t) /\ Len(s \o t) = Len(s) + Len(t)
<1> DEFINE c == s \o t
<1>1. /\ c \in Seq(V) /\ Len(c) = Len(s) + Len(t) /\ Len(s) \in Nat /\ Len(t) \in Nat
      /\ \A i \in 1 .. Len(s) + Len(t) : c[i] = IF i <= Len(s) THEN s[i] ELSE t[i - Len(s)]
  BY ConcatProperties, LenProperties
<1>2. DOMAIN c = 1 .. Len(s) + Len(t) /\ DOMAIN s = 1 .. Len(s) /\ DOMAIN t = 1 .. Len(t)
  BY <1>1, LenProperties
<1> HIDE DEF c
<1>3. ASSUME NEW i \in DOMAIN c PROVE c[i] \in ToSet(s) \cup ToSet(t)
  <2>1. CASE i <= Len(s)
    BY <1>1, <1>2, <2>1 DEF ToSet
  <2>2. CASE ~(i <= Len(s))
    <3>1. i - Len(s) \in 1 .. Len(t) /\ c[i] = t[i - Len(s)]
      BY <1>1, <1>2, <2>2
    <3>2. QED
      BY <1>2, <3>1 DEF ToSet
  <2>3. QED
    BY <2>1, <2>2
<1>4. ASSUME NEW i \in DOMAIN s PROVE s[i] \in ToSet(c)
  <2>1. i \in DOMAIN c /\ c[i] = s[i]
    BY <1>1, <1>2
  <2>2. QED
    BY <2>1 DEF ToSet
<1>5. ASSUME NEW i \in DOMAIN t PROVE t[i] \in ToSet(c)
  <2>1. /\ i + Len(s) \in 1 .. Len(s) + Len(t) /\ ~(i + Len(s) <= Len(s))
        /\ (i + Len(s)) - Len(s) = i
    BY <1>1, <1>2
  <2>2. i + Len(s) \in DOMAIN c /\ c[i + Len(s)] = t[i]
    BY <1>1, <1>2, <2>1
  <2>3. QED
    BY <2>2 DEF ToSet
<1>6. ToSet(c) = ToSet(s) \cup ToSet(t)
  <2>1. ToSet(c) = {c[i] : i \in DOMAIN c} /\ ToSet(s) = {s[i] : i \in DOMAIN s}
        /\ ToSet(t) = {t[i] : i \in DOMAIN t}
    BY DEF ToSet
  <2>2. QED
    BY <1>3, <1>4, <1>5, <2>1
<1>7. QED
  BY <1>1, <1>6 DEF c

LEMMA FlattenHolds ==
    ASSUME NEW V, NEW seqs \in Seq(Seq(V))
    PROVE  /\ FlattenSeq(seqs) \in Seq(V)
           /\ \A n \in 1 .. Len(seqs) : ToSet(seqs[n]) \subseteq ToSet(FlattenSeq(seqs))
           /\ \A x \in ToSet(FlattenSeq(seqs)) : \E n \in 1 .. Len(seqs) : x \in ToSet(seqs[n])
<1> DEFINE N == Len(seqs)
           All(n) == UNION {ToSet(seqs[m]) : m \in 1 .. n}
<1>1. N \in Nat /\ \A n \in 1 .. N : seqs[n] \in Seq(V)
  BY LenProperties, ElementOfSeq
<1>2. PICK g : Flattening(V, seqs, g)
  BY FlattenedBy
<1> HIDE DEF N
<1>3. /\ g \in [0 .. N -> Seq(V)] /\ g[0] = << >> /\ FlattenSeq(seqs) = g[N]
      /\ \A n \in 1 .. N : g[n] = g[n - 1] \o seqs[n]
  BY <1>2 DEF Flattening, N
<1> DEFINE P == {n \in 0 .. N : ToSet(g[n]) = All(n)}
<1>4. 0 \in P
  <2>1. 1 .. 0 = {}
    OBVIOUS
  <2>2. All(0) = {}
    BY <2>1, Zenon
  <2>3. ToSet(g[0]) = {}
    BY <1>3 DEF ToSet
  <2>4. QED
    BY <1>1, <2>2, <2>3
<1>5. ASSUME NEW n \in 1 .. N, n - 1 \in P PROVE n \in P
  <2>1. n - 1 \in 0 .. N /\ n \in 0 .. N /\ 1 .. n = (1 .. n - 1) \cup {n}
    BY <1>1
  <2>2. ToSet(g[n]) = ToSet(g[n - 1]) \cup ToSet(seqs[n])
    <3>1. g[n - 1] \in Seq(V) /\ seqs[n] \in Seq(V) /\ g[n] = g[n - 1] \o seqs[n]
      BY <1>1, <1>3, <2>1
    <3>2. QED
      BY <3>1, SetOfConcat
  <2>3. All(n) = All(n - 1) \cup ToSet(seqs[n])
    BY <2>1
  <2> HIDE DEF All
  <2>4. QED
    BY <1>5, <2>1, <2>2, <2>3
<1>6. \A n \in 0 .. N : n \in P
  <2> HIDE DEF P
  <2>1. QED
    BY <1>1, <1>4, <1>5, Induction
<1>7. N \in 0 .. N
  BY <1>1
<1>8. FlattenSeq(seqs) \in Seq(V) /\ ToSet(FlattenSeq(seqs)) = All(N)
  BY <1>3, <1>6, <1>7
<1>9. QED
  BY <1>8 DEF N

(* Lists twice as long as the disjoint parts of a set are big.             *)
Parted(seqs, parts, S) ==
    /\ IsFiniteSet(S) /\ S = UNION {parts[n] : n \in 1 .. Len(seqs)}
    /\ \A m, n \in 1 .. Len(seqs) : m # n => parts[m] \cap parts[n] = {}
    /\ \A n \in 1 .. Len(seqs) : Len(seqs[n]) = 2 * Cardinality(parts[n])

LEMMA FlattenCounts ==
    ASSUME NEW V, NEW seqs \in Seq(Seq(V)), NEW parts, NEW T, Parted(seqs, parts, T)
    PROVE  Len(FlattenSeq(seqs)) = 2 * Cardinality(T)
<1> DEFINE N == Len(seqs)
           All(n) == UNION {parts[m] : m \in 1 .. n}
<1>1. N \in Nat /\ \A n \in 1 .. N : seqs[n] \in Seq(V)
  BY LenProperties, ElementOfSeq
<1>2. PICK g : Flattening(V, seqs, g)
  BY FlattenedBy
<1>3. /\ IsFiniteSet(T) /\ T = All(N)
      /\ \A n \in 1 .. N : parts[n] \in SUBSET T /\ Len(seqs[n]) = 2 * Cardinality(parts[n])
  BY DEF Parted
<1>4. \A m, n \in 1 .. N : m # n => parts[m] \cap parts[n] = {}
  BY DEF Parted
<1> HIDE DEF N
<1>5. /\ g \in [0 .. N -> Seq(V)] /\ g[0] = << >> /\ FlattenSeq(seqs) = g[N]
      /\ \A n \in 1 .. N : g[n] = g[n - 1] \o seqs[n]
  BY <1>2 DEF Flattening, N
<1> DEFINE P == {n \in 0 .. N : Len(g[n]) = 2 * Cardinality(All(n))}
<1>6. 0 \in P
  <2>1. 1 .. 0 = {}
    OBVIOUS
  <2>2. All(0) = {}
    BY <2>1, Zenon
  <2>3. Len(<< >>) = 0 /\ Cardinality({}) = 0
    BY EmptySeq, FS_EmptySet
  <2>4. Len(g[0]) = 0 /\ Cardinality(All(0)) = 0
    BY <1>5, <2>2, <2>3
  <2> HIDE DEF All
  <2>5. QED
    BY <1>1, <2>4
<1>7. ASSUME NEW n \in 1 .. N, n - 1 \in P PROVE n \in P
  <2>1. n - 1 \in 0 .. N /\ n \in 0 .. N /\ 1 .. n = (1 .. n - 1) \cup {n}
    BY <1>1
  <2>2. Len(g[n]) = Len(g[n - 1]) + Len(seqs[n])
    <3>1. g[n - 1] \in Seq(V) /\ seqs[n] \in Seq(V) /\ g[n] = g[n - 1] \o seqs[n]
      BY <1>1, <1>5, <2>1
    <3>2. QED
      BY <3>1, SetOfConcat
  <2>3. All(n) = All(n - 1) \cup parts[n]
    BY <2>1
  <2>4. IsFiniteSet(All(n - 1)) /\ IsFiniteSet(parts[n]) /\ All(n - 1) \cap parts[n] = {}
    <3>1. All(n - 1) \subseteq T /\ parts[n] \subseteq T
      BY <1>1, <1>3
    <3>2. \A m \in 1 .. n - 1 : m \in 1 .. N /\ m # n
      BY <1>1
    <3>3. \A m \in 1 .. n - 1 : parts[m] \cap parts[n] = {}
      BY <1>4, <3>2
    <3>4. QED
      BY <1>3, <3>1, <3>3, FS_Subset
  <2> HIDE DEF All
  <2>5. /\ Cardinality(All(n)) = Cardinality(All(n - 1)) + Cardinality(parts[n])
        /\ Cardinality(All(n - 1)) \in Nat /\ Cardinality(parts[n]) \in Nat
    <3>1. Cardinality(All(n - 1) \cup parts[n]) =
             Cardinality(All(n - 1)) + Cardinality(parts[n])
             - Cardinality(All(n - 1) \cap parts[n])
      BY <2>4, FS_Union
    <3>2. Cardinality(All(n - 1) \cap parts[n]) = 0
      BY <2>4, FS_EmptySet
    <3>3. Cardinality(All(n - 1)) \in Nat /\ Cardinality(parts[n]) \in Nat
      BY <2>4, FS_CardinalityType
    <3>4. QED
      BY <2>3, <3>1, <3>2, <3>3
  <2>6. Len(seqs[n]) = 2 * Cardinality(parts[n])
    BY <1>3
  <2>7. Len(g[n - 1]) = 2 * Cardinality(All(n - 1))
    BY <1>7
  <2>8. QED
    BY <2>1, <2>2, <2>5, <2>6, <2>7
<1>8. \A n \in 0 .. N : n \in P
  <2> HIDE DEF P
  <2>1. QED
    BY <1>1, <1>6, <1>7, Induction
<1>9. N \in 0 .. N
  BY <1>1
<1>10. Len(FlattenSeq(seqs)) = 2 * Cardinality(All(N))
  BY <1>5, <1>8, <1>9
<1>11. QED
  BY <1>10, <1>3

(* A set in some order.                                                   *)
LEMMA SetInOrder ==
    ASSUME NEW S, IsFiniteSet(S)
    PROVE  /\ Cardinality(S) \in Nat /\ SetToSeq(S) \in [1 .. Cardinality(S) -> S]
           /\ \A i, j \in 1 .. Cardinality(S) : SetToSeq(S)[i] = SetToSeq(S)[j] => i = j
           /\ \A x \in S : \E i \in 1 .. Cardinality(S) : SetToSeq(S)[i] = x
<1> DEFINE C == Cardinality(S)
           q == SetToSeq(S)
<1>1. C \in Nat /\ ExistsBijection(1 .. C, S)
  BY FS_CardinalityType
<1>2. PICK f \in Bijection(1 .. C, S) : TRUE
  BY <1>1 DEF ExistsBijection
<1>3. f \in [1 .. C -> S] /\ IsInjective(f)
  BY <1>2 DEF Bijection, Injection
<1>4. q \in [1 .. C -> S] /\ IsInjective(q)
  BY <1>3 DEF SetToSeq
<1> HIDE DEF q
<1>5. q \in Injection(1 .. C, S)
  BY <1>4 DEF Injection
<1>6. Cardinality(1 .. C) = C
  BY <1>1, FS_Interval
<1>7. q \in Surjection(1 .. C, S)
  BY <1>5, <1>6, FS_Injection
<1>8. \A i, j \in 1 .. C : q[i] = q[j] => i = j
  BY <1>4 DEF IsInjective
<1>9. \A x \in S : \E i \in 1 .. C : q[i] = x
  BY <1>7 DEF Surjection
<1>10. QED
  BY <1>1, <1>4, <1>8, <1>9 DEF q

-----------------------------------------------------------------------------
(* What one part of a build does to the maps.                              *)

Grown(i, b, type, j) ==
    /\ DOMAIN j = DOMAIN i
    /\ type \in {"SymbolByName", "SymbolByAddress"} =>
          /\ j.byName = PushAll(i.byName, Ids(b.symbols), Names(b))
          /\ j.symbolAt = BindAll(i.symbolAt, Addresses(b))
    /\ type \notin {"SymbolByName", "SymbolByAddress"} =>
          j.byName = i.byName /\ j.symbolAt = i.symbolAt
    /\ IF type = "FunctionByAddress" THEN j.functionAt = BindAll(i.functionAt, Starts(b))
       ELSE j.functionAt = i.functionAt
    /\ IF type \in {"XRefIncoming", "XRefOutgoing"}
       THEN j.incoming = PushAll(i.incoming, Xrefs(b), To(Xrefs(b)))
       ELSE j.incoming = i.incoming

LEMMA BodyIs ==
    ASSUME NEW i, DOMAIN i = DOMAIN EmptyIndex, NEW b, NEW type
    PROVE  Grown(i, b, type, BuildIndex(i, b, type))
<1> DEFINE body == BuildBody(i, b, type)
           j == BuildIndex(i, b, type)
<1>1. \A f \in {"byName", "byPrefix", "symbolAt", "functionAt", "insnAt", "incoming",
                "outgoing", "strings", "built"} : f \in DOMAIN i
  BY DEF EmptyIndex
<1>2. Grown(i, b, type, body)
  <2>1. CASE type \in {"SymbolByName", "SymbolByAddress"}
    <3>1. body = AddSymbols(i, b)
      BY <2>1 DEF BuildBody
    <3>2. QED
      BY <1>1, <2>1, <3>1 DEF Grown, AddSymbols
  <2>2. CASE type = "FunctionByAddress"
    <3>1. body = [i EXCEPT !.functionAt = BindAll(@, Starts(b))]
      BY <2>2 DEF BuildBody
    <3>2. QED
      BY <1>1, <2>2, <3>1 DEF Grown
  <2>3. CASE type = "InstructionByAddress"
    <3>1. PICK m : body = [i EXCEPT !.insnAt = m]
      BY <2>3 DEF BuildBody
    <3>2. QED
      BY <1>1, <2>3, <3>1 DEF Grown
  <2>4. CASE type \in {"XRefIncoming", "XRefOutgoing"}
    <3>1. body = AddXrefs(i, Xrefs(b))
      BY <2>4 DEF BuildBody
    <3>2. QED
      BY <1>1, <2>4, <3>1 DEF Grown, AddXrefs
  <2>5. CASE type = "StringLiteral"
    <3>1. PICK m : body = [i EXCEPT !.strings = m]
      BY <2>5 DEF BuildBody
    <3>2. QED
      BY <1>1, <2>5, <3>1 DEF Grown
  <2>6. CASE type \notin {"SymbolByName", "SymbolByAddress", "FunctionByAddress",
                          "InstructionByAddress", "XRefIncoming", "XRefOutgoing", "StringLiteral"}
    <3>1. body = i
      BY <2>6 DEF BuildBody
    <3>2. QED
      BY <2>6, <3>1 DEF Grown
  <2>7. QED
    BY <2>1, <2>2, <2>3, <2>4, <2>5, <2>6
<1>3. j = [body EXCEPT !.built = @ \cup {type}]
  BY DEF BuildIndex
<1> HIDE DEF body, j
<1>4. /\ DOMAIN j = DOMAIN body /\ DOMAIN body = DOMAIN i
      /\ j.byName = body.byName /\ j.symbolAt = body.symbolAt
      /\ j.functionAt = body.functionAt /\ j.incoming = body.incoming
  BY <1>1, <1>2, <1>3 DEF Grown
<1>5. QED
  BY <1>2, <1>4 DEF Grown, j

(* A binary as this component reads it.                                    *)
Sound(b) ==
    /\ b.symbols \in Seq(Symbols) /\ b.functions \in Seq(Functions)
    /\ IsLatest(b.symbolAt, Addresses(b)) /\ IsLatest(b.functionAt, Starts(b))

Indexed(i, b, kinds) ==
    /\ DOMAIN i = DOMAIN EmptyIndex
    /\ NamesIndexed(i, b, kinds) /\ PlacesIndexed(i, b, kinds) /\ CallsIndexed(i, b, kinds)

LEMMA ColumnIs ==
    ASSUME NEW n \in Nat, NEW S, NEW s \in [1 .. n -> S]
    PROVE  s \in Seq(S) /\ Len(s) = n
<1>1. s \in Seq(S)
  BY SeqDef
<1>2. QED
  BY <1>1, LenProperties

LEMMA ColumnsAre ==
    ASSUME NEW b, Sound(b)
    PROVE  /\ Len(b.symbols) \in Nat /\ DOMAIN b.symbols = 1 .. Len(b.symbols)
           /\ Ids(b.symbols) \in Seq(DOMAIN b.symbols) /\ Len(Ids(b.symbols)) = Len(b.symbols)
           /\ Addresses(b) \in Seq({Addresses(b)[id] : id \in 1 .. Len(b.symbols)})
           /\ Len(Addresses(b)) = Len(b.symbols)
           /\ Len(b.functions) \in Nat /\ DOMAIN b.functions = 1 .. Len(b.functions)
           /\ Starts(b) \in Seq({Starts(b)[id] : id \in 1 .. Len(b.functions)})
           /\ Len(Starts(b)) = Len(b.functions)
<1>1. /\ Len(b.symbols) \in Nat /\ DOMAIN b.symbols = 1 .. Len(b.symbols)
      /\ Len(b.functions) \in Nat /\ DOMAIN b.functions = 1 .. Len(b.functions)
  BY LenProperties DEF Sound
<1>2. Ids(b.symbols) \in [1 .. Len(b.symbols) -> DOMAIN b.symbols]
  BY <1>1 DEF Ids
<1>3. Addresses(b) \in [1 .. Len(b.symbols) -> {Addresses(b)[id] : id \in 1 .. Len(b.symbols)}]
  BY DEF Addresses
<1>4. Starts(b) \in [1 .. Len(b.functions) -> {Starts(b)[id] : id \in 1 .. Len(b.functions)}]
  BY DEF Starts
<1>5. QED
  BY <1>1, <1>2, <1>3, <1>4, ColumnIs

(* To index the symbols.                                                   *)
LEMMA SymbolsAreIndexed ==
    ASSUME NEW b, Sound(b), NEW i, NEW kinds, NamesIndexed(i, b, kinds)
    PROVE  LET byName == PushAll(i.byName, Ids(b.symbols), Names(b))
               N == Len(b.symbols)
           IN  /\ Pushed(i.byName, Ids(b.symbols), Names(b), N, byName)
               /\ \A j, more : j.byName = byName => NamesIndexed(j, b, more)
<1> DEFINE list == Ids(b.symbols)
           keys == Names(b)
           map == i.byName
           byName == PushAll(map, list, keys)
           V == DOMAIN b.symbols
           N == Len(b.symbols)
           K == {b.symbols[id].name : id \in V} \ {<< >>}
<1>1. N \in Nat /\ V = 1 .. N /\ list \in Seq(V) /\ Len(list) = N
  BY ColumnsAre
<1>2. keys \in [1 .. N -> SUBSET K]
  BY <1>1 DEF Names
<1>3. /\ \A id \in 1 .. N : list[id] = id
      /\ \A id \in 1 .. N : \A k : k \in keys[id] <=> b.symbols[id].name = k /\ k # << >>
  BY DEF Ids, Names
<1>4. map \in [DOMAIN map -> Seq(V)] /\ DOMAIN map \subseteq K
  BY DEF NamesIndexed
<1>5. \A name \in DOMAIN map : \A id \in ToSet(map[name]) : b.symbols[id].name = name
  BY DEF NamesIndexed
<1>6. \A k \in K : \E id \in V : b.symbols[id].name = k /\ k # << >>
  OBVIOUS
<1> HIDE DEF list, keys, map, V, K, N, byName
<1>7. map \in Lists(K, V)
  BY <1>4, ListsAre
<1>8. byName \in Lists(K, V) /\ Pushed(map, list, keys, N, byName)
  BY <1>1, <1>2, <1>7, AllPushed DEF byName
<1>9. DOMAIN byName \subseteq K /\ byName \in [DOMAIN byName -> Seq(V)]
  BY <1>8, ListsAre
<1>10. ASSUME NEW name, NEW id \in ToSet(Held(byName, name)) PROVE b.symbols[id].name = name
  <2>1. id \in ToSet(Held(map, name)) \cup {list[m] : m \in With(keys, name, N)}
    BY <1>8 DEF Pushed
  <2>2. CASE id \in ToSet(Held(map, name))
    <3>1. CASE name \in DOMAIN map
      BY <1>5, <2>2, <3>1 DEF Held
    <3>2. CASE name \notin DOMAIN map
      BY <2>2, <3>2 DEF Held, ToSet
    <3>3. QED
      BY <3>1, <3>2
  <2>3. CASE \E m \in With(keys, name, N) : id = list[m]
    BY <1>3, <2>3 DEF With
  <2>4. QED
    BY <2>1, <2>2, <2>3
<1>11. ASSUME NEW id \in V, b.symbols[id].name # << >>
       PROVE  id \in ToSet(Held(byName, b.symbols[id].name))
  <2> DEFINE k == b.symbols[id].name
  <2>1. id \in With(keys, k, N) /\ list[id] = id
    BY <1>1, <1>3, <1>11 DEF With
  <2>2. id \in {list[m] : m \in With(keys, k, N)}
    BY <2>1
  <2>3. ToSet(Held(byName, k)) = ToSet(Held(map, k)) \cup {list[m] : m \in With(keys, k, N)}
    BY <1>8 DEF Pushed
  <2>4. QED
    BY <2>2, <2>3
<1>12. ASSUME NEW j, NEW more, j.byName = byName PROVE NamesIndexed(j, b, more)
  <2>1. \A name \in DOMAIN byName : byName[name] = Held(byName, name)
    BY DEF Held
  <2>2. \A name \in DOMAIN byName : \A id \in ToSet(byName[name]) : b.symbols[id].name = name
    BY <1>10, <2>1
  <2>3. DOMAIN byName \subseteq {b.symbols[id].name : id \in DOMAIN b.symbols} \ {<< >>}
    BY <1>9 DEF K, V
  <2>4. byName \in [DOMAIN byName -> Seq(DOMAIN b.symbols)]
    BY <1>9 DEF V
  <2>5. \A id \in DOMAIN b.symbols :
           b.symbols[id].name # << >> => id \in ToSet(Held(byName, b.symbols[id].name))
    BY <1>11 DEF V
  <2>6. QED
    BY <1>12, <2>2, <2>3, <2>4, <2>5 DEF NamesIndexed
<1>13. QED
  BY <1>8, <1>12 DEF list, keys, map, N, byName

(* To index the addresses.                                                 *)
LEMMA PlacesAreBound ==
    ASSUME NEW b, Sound(b), NEW i, NEW kinds, PlacesIndexed(i, b, kinds)
    PROVE  /\ BindAll(i.symbolAt, Addresses(b)) = b.symbolAt
           /\ BindAll(i.functionAt, Starts(b)) = b.functionAt
<1>1. ASSUME NEW K, NEW keys \in Seq(K), NEW map, NEW own, map \in [DOMAIN map -> Nat],
             DOMAIN map \subseteq DOMAIN own, IsLatest(own, keys)
      PROVE  BindAll(map, keys) = own
  <2>1. DOMAIN own = {keys[n] : n \in DOMAIN keys} /\ DOMAIN keys = 1 .. Len(keys)
    BY <1>1, LenProperties DEF IsLatest
  <2>2. DOMAIN map \subseteq {keys[n] : n \in 1 .. Len(keys)}
    BY <1>1, <2>1
  <2>3. IsLatest(BindAll(map, keys), keys)
    BY <1>1, <2>2, BoundIsLatest
  <2>4. QED
    BY <1>1, <2>3, LatestIsOne
<1>2. BindAll(i.symbolAt, Addresses(b)) = b.symbolAt
  <2>1. /\ i.symbolAt \in [DOMAIN i.symbolAt -> Nat] /\ DOMAIN i.symbolAt \subseteq DOMAIN b.symbolAt
        /\ IsLatest(b.symbolAt, Addresses(b))
    BY DEF PlacesIndexed, Sound
  <2>2. Addresses(b) \in Seq({Addresses(b)[id] : id \in 1 .. Len(b.symbols)})
    BY ColumnsAre
  <2>3. QED
    BY <1>1, <2>1, <2>2
<1>3. BindAll(i.functionAt, Starts(b)) = b.functionAt
  <2>1. /\ i.functionAt \in [DOMAIN i.functionAt -> Nat]
        /\ DOMAIN i.functionAt \subseteq DOMAIN b.functionAt
        /\ IsLatest(b.functionAt, Starts(b))
    BY DEF PlacesIndexed, Sound
  <2>2. Starts(b) \in Seq({Starts(b)[id] : id \in 1 .. Len(b.functions)})
    BY ColumnsAre
  <2>3. QED
    BY <1>1, <2>1, <2>2
<1>4. QED
  BY <1>2, <1>3

(* To index the references.                                                *)
LEMMA XrefsAre ==
    ASSUME NEW b, Sound(b)
    PROVE  /\ Xrefs(b) \in Seq(AnyXref)
           /\ \A f \in DOMAIN b.functions :
                 ToSet(b.functions[f].callsIn) \subseteq ToSet(Xrefs(b))
<1> DEFINE N == Len(b.functions)
           calls == [f \in 1 .. N |-> b.functions[f].callsIn \o b.functions[f].callsOut]
<1>1. N \in Nat /\ DOMAIN b.functions = 1 .. N
  BY ColumnsAre
<1>2. ASSUME NEW f \in 1 .. N
      PROVE  b.functions[f].callsIn \in Seq(AnyXref) /\ b.functions[f].callsOut \in Seq(AnyXref)
  <2>1. b.functions[f] \in Functions
    BY ElementOfSeq DEF Sound
  <2>2. QED
    BY <2>1, DatabaseAssumption
<1>3. Xrefs(b) = FlattenSeq(calls)
  BY DEF Xrefs
<1>4. ASSUME NEW f \in 1 .. N
      PROVE  /\ calls[f] \in Seq(AnyXref)
             /\ ToSet(b.functions[f].callsIn) \subseteq ToSet(calls[f])
  <2> DEFINE s == b.functions[f].callsIn
             t == b.functions[f].callsOut
  <2>1. calls[f] = s \o t /\ s \in Seq(AnyXref) /\ t \in Seq(AnyXref)
    BY <1>2
  <2> HIDE DEF s, t, calls
  <2>2. s \o t \in Seq(AnyXref) /\ ToSet(s \o t) = ToSet(s) \cup ToSet(t)
    BY <2>1, SetOfConcat
  <2>3. calls[f] \in Seq(AnyXref) /\ ToSet(s) \subseteq ToSet(calls[f])
    BY <2>1, <2>2
  <2>4. QED
    BY <2>3 DEF s
<1>5. calls \in [1 .. N -> Seq(AnyXref)]
  BY <1>4
<1> HIDE DEF calls, N
<1>6. calls \in Seq(Seq(AnyXref)) /\ Len(calls) = N
  <2>1. calls \in Seq(Seq(AnyXref))
    BY <1>1, <1>5, SeqDef
  <2>2. QED
    BY <1>1, <1>5, <2>1, LenProperties
<1>7. /\ FlattenSeq(calls) \in Seq(AnyXref)
      /\ \A n \in 1 .. N : ToSet(calls[n]) \subseteq ToSet(FlattenSeq(calls))
  BY <1>6, FlattenHolds
<1>8. QED
  BY <1>1, <1>3, <1>4, <1>7

LEMMA CallsAreIndexed ==
    ASSUME NEW b, Sound(b), NEW i, NEW kinds, CallsIndexed(i, b, kinds), NEW j, NEW more,
           j.incoming = PushAll(i.incoming, Xrefs(b), To(Xrefs(b)))
    PROVE  CallsIndexed(j, b, more)
<1> DEFINE list == Xrefs(b)
           keys == To(list)
           map == i.incoming
           in == PushAll(map, list, keys)
           N == Len(list)
           K == DOMAIN map \cup {x.to : x \in AnyXref}
<1>1. list \in Seq(AnyXref)
  BY XrefsAre
<1>2. N \in Nat /\ DOMAIN list = 1 .. N /\ \A n \in 1 .. N : list[n] \in AnyXref
  BY <1>1, LenProperties, ElementOfSeq
<1>3. keys \in [1 .. N -> SUBSET K] /\ \A n \in 1 .. N : keys[n] = {list[n].to}
  BY <1>2 DEF To
<1>4. map \in Lists(K, AnyXref)
  <2>1. map \in [DOMAIN map -> Seq(AnyXref)] /\ DOMAIN map \subseteq K
    BY DEF CallsIndexed
  <2>2. QED
    BY <2>1, ListsAre
<1> HIDE DEF keys, K
<1>5. in \in Lists(K, AnyXref) /\ Pushed(map, list, keys, N, in)
  BY <1>1, <1>3, <1>4, AllPushed
<1> HIDE DEF list, map, in, N
<1>6. in \in [DOMAIN in -> Seq(AnyXref)]
  BY <1>5, ListsAre
<1>7. ASSUME NEW f \in DOMAIN b.functions, NEW x \in ToSet(b.functions[f].callsIn)
      PROVE  x \in ToSet(Held(in, x.to))
  <2>1. x \in ToSet(list)
    BY XrefsAre DEF list
  <2>2. PICK n \in 1 .. N : x = list[n]
    BY <1>2, <2>1 DEF ToSet
  <2>3. n \in With(keys, x.to, N)
    BY <1>3, <2>2 DEF With
  <2>4. x \in {list[m] : m \in With(keys, x.to, N)}
    BY <2>2, <2>3
  <2>5. ToSet(Held(in, x.to)) = ToSet(Held(map, x.to)) \cup {list[m] : m \in With(keys, x.to, N)}
    BY <1>5 DEF Pushed
  <2>6. QED
    BY <2>4, <2>5
<1>8. j.incoming = in
  BY DEF in, map, list, keys
<1>9. QED
  BY <1>6, <1>7, <1>8 DEF CallsIndexed

(* A part of a build keeps what is indexed, and adds its type to it.       *)
LEMMA BuildIndexKeeps ==
    ASSUME NEW b, Sound(b), NEW i, NEW kinds, Indexed(i, b, kinds), NEW type
    PROVE  Indexed(BuildIndex(i, b, type), b, kinds \cup {type})
<1> DEFINE j == BuildIndex(i, b, type)
           more == kinds \cup {type}
<1>1. /\ DOMAIN i = DOMAIN EmptyIndex
      /\ NamesIndexed(i, b, kinds) /\ PlacesIndexed(i, b, kinds) /\ CallsIndexed(i, b, kinds)
  BY DEF Indexed
<1>2. Grown(i, b, type, j)
  BY <1>1, BodyIs
<1> HIDE DEF j
<1>3. DOMAIN j = DOMAIN EmptyIndex
  BY <1>1, <1>2 DEF Grown
<1>4. NamesIndexed(j, b, more)
  <2>1. CASE type \in {"SymbolByName", "SymbolByAddress"}
    <3>1. j.byName = PushAll(i.byName, Ids(b.symbols), Names(b))
      BY <1>2, <2>1 DEF Grown
    <3> HIDE DEF more
    <3>2. QED
      BY <1>1, <3>1, SymbolsAreIndexed
  <2>2. CASE type \notin {"SymbolByName", "SymbolByAddress"}
    <3>1. j.byName = i.byName
      BY <1>2, <2>2 DEF Grown
    <3>2. "SymbolByAddress" \in more \/ "SymbolByName" \in more =>
             "SymbolByAddress" \in kinds \/ "SymbolByName" \in kinds
      BY <2>2
    <3> HIDE DEF more
    <3>3. QED
      BY <1>1, <3>1, <3>2 DEF NamesIndexed
  <2>3. QED
    BY <2>1, <2>2
<1>5. PlacesIndexed(j, b, more)
  <2>1. /\ BindAll(i.symbolAt, Addresses(b)) = b.symbolAt
        /\ BindAll(i.functionAt, Starts(b)) = b.functionAt
    BY <1>1, PlacesAreBound
  <2>2. /\ b.symbolAt \in [DOMAIN b.symbolAt -> Nat]
        /\ b.functionAt \in [DOMAIN b.functionAt -> Nat]
    <3>1. ASSUME NEW K, NEW keys \in Seq(K), NEW map, IsLatest(map, keys)
          PROVE  map \in [DOMAIN map -> Nat]
      <4>1. DOMAIN keys = 1 .. Len(keys) /\ Len(keys) \in Nat
        BY <3>1, LenProperties
      <4>2. map \in [{keys[n] : n \in DOMAIN keys} -> DOMAIN keys]
        BY <3>1 DEF IsLatest
      <4>3. QED
        BY <4>1, <4>2
    <3>2. QED
      BY <3>1, ColumnsAre DEF Sound
  <2>3. /\ j.symbolAt \in [DOMAIN j.symbolAt -> Nat]
        /\ DOMAIN j.symbolAt \subseteq DOMAIN b.symbolAt
        /\ "SymbolByAddress" \in more \/ "SymbolByName" \in more => j.symbolAt = b.symbolAt
    <3>1. CASE type \in {"SymbolByName", "SymbolByAddress"}
      <4>1. j.symbolAt = b.symbolAt
        BY <1>2, <2>1, <3>1 DEF Grown
      <4>2. QED
        BY <2>2, <4>1
    <3>2. CASE type \notin {"SymbolByName", "SymbolByAddress"}
      <4>1. j.symbolAt = i.symbolAt
        BY <1>2, <3>2 DEF Grown
      <4>2. QED
        BY <1>1, <3>2, <4>1 DEF PlacesIndexed
    <3>3. QED
      BY <3>1, <3>2
  <2>4. /\ j.functionAt \in [DOMAIN j.functionAt -> Nat]
        /\ DOMAIN j.functionAt \subseteq DOMAIN b.functionAt
        /\ "FunctionByAddress" \in more => j.functionAt = b.functionAt
    <3>1. CASE type = "FunctionByAddress"
      <4>1. j.functionAt = b.functionAt
        BY <1>2, <2>1, <3>1 DEF Grown
      <4>2. QED
        BY <2>2, <4>1
    <3>2. CASE type # "FunctionByAddress"
      <4>1. j.functionAt = i.functionAt
        BY <1>2, <3>2 DEF Grown
      <4>2. QED
        BY <1>1, <3>2, <4>1 DEF PlacesIndexed
    <3>3. QED
      BY <3>1, <3>2
  <2>5. QED
    BY <2>3, <2>4 DEF PlacesIndexed
<1>6. CallsIndexed(j, b, more)
  <2>1. CASE type \in {"XRefIncoming", "XRefOutgoing"}
    <3>1. j.incoming = PushAll(i.incoming, Xrefs(b), To(Xrefs(b)))
      BY <1>2, <2>1 DEF Grown
    <3> HIDE DEF more
    <3>2. QED
      BY <1>1, <3>1, CallsAreIndexed
  <2>2. CASE type \notin {"XRefIncoming", "XRefOutgoing"}
    <3>1. j.incoming = i.incoming /\ ("XRefIncoming" \in more => "XRefIncoming" \in kinds)
      BY <1>2, <2>2 DEF Grown
    <3> HIDE DEF more
    <3>2. QED
      BY <1>1, <3>1 DEF CallsIndexed
  <2>3. QED
    BY <2>1, <2>2
<1>7. QED
  BY <1>3, <1>4, <1>5, <1>6 DEF Indexed, j

LEMMA EmptyIndexed ==
    ASSUME NEW b
    PROVE  Indexed(EmptyIndex, b, {})
<1>1. \A S : << >> \in [DOMAIN << >> -> S] /\ \A T : DOMAIN << >> \subseteq T
  OBVIOUS
<1>2. /\ EmptyIndex.byName = << >> /\ EmptyIndex.symbolAt = << >>
      /\ EmptyIndex.functionAt = << >> /\ EmptyIndex.incoming = << >>
  BY DEF EmptyIndex
<1>3. NamesIndexed(EmptyIndex, b, {})
  BY <1>1, <1>2 DEF NamesIndexed
<1>4. PlacesIndexed(EmptyIndex, b, {})
  BY <1>1, <1>2 DEF PlacesIndexed
<1>5. CallsIndexed(EmptyIndex, b, {})
  BY <1>1, <1>2 DEF CallsIndexed
<1>6. QED
  BY <1>3, <1>4, <1>5 DEF Indexed

(* The rounds of a whole build.                                            *)
Building(b, g) ==
    /\ g[0] = EmptyIndex /\ Build(b) = g[8]
    /\ \A n \in 1 .. 8 : g[n] = BuildIndex(g[n - 1], b, IndexTypes[n])

LEMMA BuiltBy ==
    ASSUME NEW b
    PROVE  \E g : Building(b, g)
<1> DEFINE Round(i, n) == BuildIndex(i, b, IndexTypes[n])
           Def(f) == f = [n \in 0 .. 8 |-> IF n = 0 THEN EmptyIndex ELSE Round(f[n - 1], n)]
           g == CHOOSE f : Def(f)
<1>1. Len(IndexTypes) = 8
  BY DEF IndexTypes
<1>2. Build(b) = g[8]
  BY <1>1 DEF Build
<1> HIDE DEF Round
<1>3. \E f : Def(f)
  <2>1. PICK e1 : e1 = Round(EmptyIndex, 1)
    OBVIOUS
  <2>2. PICK e2 : e2 = Round(e1, 2)
    OBVIOUS
  <2>3. PICK e3 : e3 = Round(e2, 3)
    OBVIOUS
  <2>4. PICK e4 : e4 = Round(e3, 4)
    OBVIOUS
  <2>5. PICK e5 : e5 = Round(e4, 5)
    OBVIOUS
  <2>6. PICK e6 : e6 = Round(e5, 6)
    OBVIOUS
  <2>7. PICK e7 : e7 = Round(e6, 7)
    OBVIOUS
  <2>8. PICK e8 : e8 = Round(e7, 8)
    OBVIOUS
  <2> DEFINE Value(n) == CASE n = 0 -> EmptyIndex [] n = 1 -> e1 [] n = 2 -> e2 [] n = 3 -> e3
                        [] n = 4 -> e4 [] n = 5 -> e5 [] n = 6 -> e6 [] n = 7 -> e7 [] OTHER -> e8
             f == [n \in 0 .. 8 |-> Value(n)]
  <2>9. /\ f[0] = EmptyIndex /\ f[1] = e1 /\ f[2] = e2 /\ f[3] = e3 /\ f[4] = e4
        /\ f[5] = e5 /\ f[6] = e6 /\ f[7] = e7 /\ f[8] = e8
    OBVIOUS
  <2>10. f = [n \in 0 .. 8 |-> f[n]]
    OBVIOUS
  <2> HIDE DEF Value, f
  <2>11. ASSUME NEW n \in 0 .. 8
         PROVE  f[n] = IF n = 0 THEN EmptyIndex ELSE Round(f[n - 1], n)
    <3>1. CASE n = 0
      BY <2>9, <3>1
    <3>2. CASE n = 1
      BY <2>1, <2>9, <3>2
    <3>3. CASE n = 2
      BY <2>2, <2>9, <3>3
    <3>4. CASE n = 3
      BY <2>3, <2>9, <3>4
    <3>5. CASE n = 4
      BY <2>4, <2>9, <3>5
    <3>6. CASE n = 5
      BY <2>5, <2>9, <3>6
    <3>7. CASE n = 6
      BY <2>6, <2>9, <3>7
    <3>8. CASE n = 7
      BY <2>7, <2>9, <3>8
    <3>9. CASE n = 8
      BY <2>8, <2>9, <3>9
    <3>10. QED
      BY <3>1, <3>2, <3>3, <3>4, <3>5, <3>6, <3>7, <3>8, <3>9
  <2>12. QED
    BY <2>10, <2>11
<1>4. Def(g)
  BY <1>3
<1> HIDE DEF g
<1>5. ASSUME NEW n \in 0 .. 8
      PROVE  g[n] = IF n = 0 THEN EmptyIndex ELSE Round(g[n - 1], n)
  BY <1>4
<1>6. g[0] = EmptyIndex /\ \A n \in 1 .. 8 : g[n] = Round(g[n - 1], n)
  BY <1>5
<1>7. QED
  BY <1>2, <1>6 DEF Building, Round

(* A build indexes everything, and lists every symbol twice.               *)
LEMMA BuildIndexes ==
    ASSUME NEW b, Sound(b)
    PROVE  /\ Indexed(Build(b), b, ToSet(IndexTypes))
           /\ \A name : Len(Held(Build(b).byName, name)) =
                           2 * Cardinality(With(Names(b), name, Len(b.symbols)))
<1>1. PICK g : Building(b, g)
  BY BuiltBy
<1>2. g[0] = EmptyIndex /\ Build(b) = g[8]
  BY <1>1 DEF Building
<1>3. /\ g[1] = BuildIndex(g[0], b, "SymbolByName")
      /\ g[2] = BuildIndex(g[1], b, "SymbolByAddress")
      /\ g[3] = BuildIndex(g[2], b, "FunctionByAddress")
      /\ g[4] = BuildIndex(g[3], b, "StringLiteral")
      /\ g[5] = BuildIndex(g[4], b, "XRefIncoming")
      /\ g[6] = BuildIndex(g[5], b, "XRefOutgoing")
      /\ g[7] = BuildIndex(g[6], b, "InstructionByAddress")
      /\ g[8] = BuildIndex(g[7], b, "BasicBlockByAddress")
  <2>1. \A n \in 1 .. 8 : g[n] = BuildIndex(g[n - 1], b, IndexTypes[n])
    BY <1>1 DEF Building
  <2>2. /\ g[1] = BuildIndex(g[0], b, IndexTypes[1]) /\ g[2] = BuildIndex(g[1], b, IndexTypes[2])
        /\ g[3] = BuildIndex(g[2], b, IndexTypes[3]) /\ g[4] = BuildIndex(g[3], b, IndexTypes[4])
        /\ g[5] = BuildIndex(g[4], b, IndexTypes[5]) /\ g[6] = BuildIndex(g[5], b, IndexTypes[6])
        /\ g[7] = BuildIndex(g[6], b, IndexTypes[7]) /\ g[8] = BuildIndex(g[7], b, IndexTypes[8])
    <3>1. /\ 1 - 1 = 0 /\ 2 - 1 = 1 /\ 3 - 1 = 2 /\ 4 - 1 = 3 /\ 5 - 1 = 4 /\ 6 - 1 = 5
          /\ 7 - 1 = 6 /\ 8 - 1 = 7
          /\ 1 \in 1 .. 8 /\ 2 \in 1 .. 8 /\ 3 \in 1 .. 8 /\ 4 \in 1 .. 8
          /\ 5 \in 1 .. 8 /\ 6 \in 1 .. 8 /\ 7 \in 1 .. 8 /\ 8 \in 1 .. 8
      OBVIOUS
    <3>2. QED
      BY <2>1, <3>1, Zenon
  <2>3. /\ IndexTypes[1] = "SymbolByName" /\ IndexTypes[2] = "SymbolByAddress"
        /\ IndexTypes[3] = "FunctionByAddress" /\ IndexTypes[4] = "StringLiteral"
        /\ IndexTypes[5] = "XRefIncoming" /\ IndexTypes[6] = "XRefOutgoing"
        /\ IndexTypes[7] = "InstructionByAddress" /\ IndexTypes[8] = "BasicBlockByAddress"
    BY DEF IndexTypes
  <2>4. QED
    BY <2>2, <2>3, Zenon
<1> DEFINE T0 == {}
           T1 == T0 \cup {"SymbolByName"}
           T2 == T1 \cup {"SymbolByAddress"}
           T3 == T2 \cup {"FunctionByAddress"}
           T4 == T3 \cup {"StringLiteral"}
           T5 == T4 \cup {"XRefIncoming"}
           T6 == T5 \cup {"XRefOutgoing"}
           T7 == T6 \cup {"InstructionByAddress"}
           T8 == T7 \cup {"BasicBlockByAddress"}
<1>4. T8 = ToSet(IndexTypes)
  <2>1. /\ DOMAIN IndexTypes = 1 .. 8
        /\ IndexTypes[1] = "SymbolByName" /\ IndexTypes[2] = "SymbolByAddress"
        /\ IndexTypes[3] = "FunctionByAddress" /\ IndexTypes[4] = "StringLiteral"
        /\ IndexTypes[5] = "XRefIncoming" /\ IndexTypes[6] = "XRefOutgoing"
        /\ IndexTypes[7] = "InstructionByAddress" /\ IndexTypes[8] = "BasicBlockByAddress"
    BY DEF IndexTypes
  <2>2. 1 .. 8 = {1, 2, 3, 4, 5, 6, 7, 8}
    OBVIOUS
  <2>3. ToSet(IndexTypes) = {IndexTypes[n] : n \in {1, 2, 3, 4, 5, 6, 7, 8}}
    BY <2>1, <2>2 DEF ToSet
  <2>4. {IndexTypes[n] : n \in {1, 2, 3, 4, 5, 6, 7, 8}} =
           {IndexTypes[1], IndexTypes[2], IndexTypes[3], IndexTypes[4], IndexTypes[5],
            IndexTypes[6], IndexTypes[7], IndexTypes[8]}
    OBVIOUS
  <2>5. QED
    BY <2>1, <2>3, <2>4
<1>5. /\ Indexed(g[0], b, T0) /\ Indexed(g[1], b, T1) /\ Indexed(g[2], b, T2)
      /\ Indexed(g[8], b, T8)
  <2> HIDE DEF T0, T1, T2, T3, T4, T5, T6, T7, T8
  <2>0. Indexed(g[0], b, T0)
    BY <1>2, EmptyIndexed DEF T0
  <2>1. Indexed(g[1], b, T1)
    BY <1>3, <2>0, BuildIndexKeeps DEF T1
  <2>2. Indexed(g[2], b, T2)
    BY <1>3, <2>1, BuildIndexKeeps DEF T2
  <2>3. Indexed(g[3], b, T3)
    BY <1>3, <2>2, BuildIndexKeeps DEF T3
  <2>4. Indexed(g[4], b, T4)
    BY <1>3, <2>3, BuildIndexKeeps DEF T4
  <2>5. Indexed(g[5], b, T5)
    BY <1>3, <2>4, BuildIndexKeeps DEF T5
  <2>6. Indexed(g[6], b, T6)
    BY <1>3, <2>5, BuildIndexKeeps DEF T6
  <2>7. Indexed(g[7], b, T7)
    BY <1>3, <2>6, BuildIndexKeeps DEF T7
  <2>8. Indexed(g[8], b, T8)
    BY <1>3, <2>7, BuildIndexKeeps DEF T8
  <2>9. QED
    BY <2>0, <2>1, <2>2, <2>8
<1> HIDE DEF T0, T1, T2, T3, T4, T5, T6, T7, T8
<1>6. Indexed(Build(b), b, ToSet(IndexTypes))
  BY <1>2, <1>4, <1>5
<1> DEFINE list == Ids(b.symbols)
           keys == Names(b)
           N == Len(b.symbols)
           first == PushAll(<< >>, list, keys)
           second == PushAll(first, list, keys)
<1>7. g[1].byName = first /\ g[2].byName = second
  <2>1. EmptyIndex.byName = << >>
    BY DEF EmptyIndex
  <2>2. DOMAIN g[0] = DOMAIN EmptyIndex /\ DOMAIN g[1] = DOMAIN EmptyIndex
    BY <1>5 DEF Indexed
  <2>3. Grown(g[0], b, "SymbolByName", g[1])
    BY <1>3, <2>2, BodyIs
  <2>4. Grown(g[1], b, "SymbolByAddress", g[2])
    BY <1>3, <2>2, BodyIs
  <2> HIDE DEF first, second
  <2>5. g[1].byName = PushAll(g[0].byName, list, keys)
    BY <2>3 DEF Grown
  <2>6. g[2].byName = PushAll(g[1].byName, list, keys)
    BY <2>4 DEF Grown
  <2>7. QED
    BY <1>2, <2>1, <2>5, <2>6 DEF first, second
<1>8. Build(b).byName = second
  <2> HIDE DEF second, first
  <2>1. ASSUME NEW i, NEW kinds, NEW type, Indexed(i, b, kinds),
               type \notin {"SymbolByName", "SymbolByAddress"}
        PROVE  BuildIndex(i, b, type).byName = i.byName
    <3>1. DOMAIN i = DOMAIN EmptyIndex
      BY <2>1 DEF Indexed
    <3>2. Grown(i, b, type, BuildIndex(i, b, type))
      BY <3>1, BodyIs
    <3>3. QED
      BY <2>1, <3>2 DEF Grown
  <2>2. Indexed(g[2], b, T2)
    BY <1>5
  <2>3. g[3].byName = g[2].byName /\ Indexed(g[3], b, T3)
    BY <1>3, <2>1, <2>2, BuildIndexKeeps DEF T3
  <2>4. g[4].byName = g[2].byName /\ Indexed(g[4], b, T4)
    BY <1>3, <2>1, <2>3, BuildIndexKeeps DEF T4
  <2>5. g[5].byName = g[2].byName /\ Indexed(g[5], b, T5)
    BY <1>3, <2>1, <2>4, BuildIndexKeeps DEF T5
  <2>6. g[6].byName = g[2].byName /\ Indexed(g[6], b, T6)
    BY <1>3, <2>1, <2>5, BuildIndexKeeps DEF T6
  <2>7. g[7].byName = g[2].byName /\ Indexed(g[7], b, T7)
    BY <1>3, <2>1, <2>6, BuildIndexKeeps DEF T7
  <2>8. g[8].byName = g[2].byName
    BY <1>3, <2>1, <2>7
  <2>9. QED
    BY <1>2, <1>7, <2>8
<1>9. NamesIndexed(g[0], b, T0) /\ NamesIndexed(g[1], b, T1) /\ g[0].byName = << >>
  <2>1. EmptyIndex.byName = << >>
    BY DEF EmptyIndex
  <2>2. QED
    BY <1>2, <1>5, <2>1 DEF Indexed
<1>10. Pushed(<< >>, list, keys, N, first) /\ Pushed(first, list, keys, N, second)
  BY <1>7, <1>9, SymbolsAreIndexed
<1>11. ASSUME NEW name PROVE Len(Held(second, name)) = 2 * Cardinality(With(keys, name, N))
  <2> HIDE DEF list, keys, N, first, second
  <2>1. Held(<< >>, name) = << >> /\ Len(<< >>) = 0
    BY EmptySeq DEF Held
  <2>2. Cardinality(With(keys, name, N)) \in Nat
    <3>1. N \in Nat
      BY ColumnsAre DEF N
    <3>2. IsFiniteSet(1 .. N) /\ With(keys, name, N) \subseteq 1 .. N
      BY <3>1, FS_Interval DEF With
    <3>3. QED
      BY <3>2, FS_Subset, FS_CardinalityType
  <2>3. /\ Len(Held(first, name)) = Len(Held(<< >>, name)) + Cardinality(With(keys, name, N))
        /\ Len(Held(second, name)) = Len(Held(first, name)) + Cardinality(With(keys, name, N))
    BY <1>10 DEF Pushed
  <2>4. QED
    BY <2>1, <2>2, <2>3
<1>12. QED
  BY <1>6, <1>8, <1>11

-----------------------------------------------------------------------------
(* What a client does to what is indexed.                                  *)

LEMMA LatestGrows ==
    ASSUME NEW K, NEW keys \in Seq(K), NEW more \in Seq(K), NEW map, IsLatest(map, keys),
           Len(more) = Len(keys) + 1, \A n \in 1 .. Len(keys) : more[n] = keys[n]
    PROVE  IsLatest(Bind(map, more[Len(more)], Len(more)), more)
<1> DEFINE N == Len(keys)
           key == more[N + 1]
           c == Bind(map, key, N + 1)
<1>1. N \in Nat /\ DOMAIN keys = 1 .. N /\ DOMAIN more = 1 .. N + 1 /\ Len(more) = N + 1
  BY LenProperties
<1>2. \A n \in 1 .. N : more[n] = keys[n]
  OBVIOUS
<1> HIDE DEF N
<1>3. /\ map \in [{keys[n] : n \in 1 .. N} -> 1 .. N]
      /\ \A n \in 1 .. N : keys[map[keys[n]]] = keys[n] /\ n <= map[keys[n]]
  BY <1>1 DEF IsLatest
<1>4. /\ c = [k \in {key} \cup DOMAIN map |-> c[k]] /\ c[key] = N + 1
      /\ \A k \in DOMAIN map : k # key => c[k] = map[k]
  BY DEF Bind
<1>5. 1 .. N + 1 = (1 .. N) \cup {N + 1} /\ N + 1 \notin 1 .. N
  BY <1>1
<1>6. {key} \cup DOMAIN map = {more[n] : n \in 1 .. N + 1}
  <2>1. DOMAIN map = {keys[n] : n \in 1 .. N}
    BY <1>3
  <2>2. {keys[n] : n \in 1 .. N} = {more[n] : n \in 1 .. N}
    BY <1>2
  <2>3. {more[n] : n \in 1 .. N + 1} = {more[N + 1]} \cup {more[n] : n \in 1 .. N}
    BY <1>5
  <2>4. QED
    BY <2>1, <2>2, <2>3
<1> HIDE DEF c
<1>7. ASSUME NEW n \in 1 .. N + 1
      PROVE  c[more[n]] \in 1 .. N + 1 /\ more[c[more[n]]] = more[n] /\ n <= c[more[n]]
  <2>1. CASE more[n] = key
    <3>1. c[more[n]] = N + 1
      BY <1>4, <2>1
    <3>2. QED
      BY <1>1, <2>1, <3>1
  <2>2. CASE more[n] # key
    <3>1. n \in 1 .. N /\ more[n] = keys[n]
      BY <1>2, <1>5, <2>2
    <3>2. c[more[n]] = map[keys[n]]
      BY <1>3, <1>4, <2>2, <3>1
    <3>3. map[keys[n]] \in 1 .. N
      BY <1>3, <3>1
    <3>4. QED
      BY <1>2, <1>3, <1>5, <3>1, <3>2, <3>3
  <2>3. QED
    BY <2>1, <2>2
<1>8. c \in [{more[n] : n \in 1 .. N + 1} -> 1 .. N + 1]
  BY <1>4, <1>6, <1>7
<1>9. IsLatest(c, more)
  BY <1>1, <1>7, <1>8 DEF IsLatest
<1>10. QED
  BY <1>1, <1>9 DEF c

LEMMA OneLonger ==
    ASSUME NEW S, NEW s \in Seq(S), NEW x \in S
    PROVE  LET t == Append(s, x)
               N == Len(s)
           IN  /\ N \in Nat /\ t \in Seq(S) /\ Len(t) = N + 1 /\ t[N + 1] = x
               /\ DOMAIN s = 1 .. N /\ DOMAIN t = 1 .. N + 1
               /\ \A n \in 1 .. N : t[n] = s[n]
BY LenProperties, AppendProperties

LEMMA SymbolCreated ==
    ASSUME NEW b, Sound(b), DOMAIN b = DOMAIN EmptyBinary(0), NEW s \in Symbols
    PROVE  LET c == CreateSymbol(b, s)
           IN  /\ Sound(c)
               /\ c.functions = b.functions /\ c.functionAt = b.functionAt
               /\ DOMAIN b.symbols \subseteq DOMAIN c.symbols
               /\ \A id \in DOMAIN b.symbols : c.symbols[id] = b.symbols[id]
               /\ DOMAIN b.symbolAt \subseteq DOMAIN c.symbolAt
<1> DEFINE c == CreateSymbol(b, s)
           N == Len(b.symbols)
<1>1. /\ c.symbols = Append(b.symbols, s) /\ c.symbolAt = Bind(b.symbolAt, s.address, N + 1)
      /\ c.functions = b.functions /\ c.functionAt = b.functionAt
  BY DEF CreateSymbol, EmptyBinary
<1> HIDE DEF c
<1>2. /\ N \in Nat /\ c.symbols \in Seq(Symbols) /\ Len(c.symbols) = N + 1
      /\ c.symbols[N + 1] = s /\ DOMAIN b.symbols = 1 .. N /\ DOMAIN c.symbols = 1 .. N + 1
      /\ \A n \in 1 .. N : c.symbols[n] = b.symbols[n]
  BY <1>1, OneLonger DEF Sound
<1> HIDE DEF N
<1> DEFINE keys == Addresses(b)
           more == Addresses(c)
           K == {more[n] : n \in 1 .. N + 1}
<1>3. /\ keys = [n \in 1 .. N |-> b.symbols[n].address]
      /\ more = [n \in 1 .. N + 1 |-> c.symbols[n].address]
  BY <1>2 DEF Addresses, N
<1>4. \A n \in 1 .. N : n \in 1 .. N + 1 /\ more[n] = keys[n]
  BY <1>2, <1>3
<1>5. more[N + 1] = s.address
  BY <1>2, <1>3
<1>6. DOMAIN keys = 1 .. N /\ DOMAIN more = 1 .. N + 1
  BY <1>3
<1> HIDE DEF keys, more
<1>7. keys \in [1 .. N -> K] /\ more \in [1 .. N + 1 -> K]
  BY <1>3, <1>4
<1>8. /\ keys \in Seq(K) /\ Len(keys) = N /\ more \in Seq(K) /\ Len(more) = N + 1
  <2>1. N \in Nat /\ N + 1 \in Nat
    BY <1>2
  <2> HIDE DEF K
  <2>2. QED
    BY <1>7, <2>1, ColumnIs
<1>9. IsLatest(c.symbolAt, more)
  <2>1. IsLatest(b.symbolAt, keys)
    BY DEF Sound, keys
  <2>2. IsLatest(Bind(b.symbolAt, more[Len(more)], Len(more)), more)
    BY <1>4, <1>8, <2>1, LatestGrows
  <2>3. QED
    BY <1>1, <1>5, <1>8, <2>2
<1>10. Starts(c) = Starts(b)
  BY <1>1 DEF Starts
<1>11. Sound(c)
  BY <1>1, <1>2, <1>9, <1>10 DEF Sound, more
<1>12. DOMAIN b.symbolAt \subseteq DOMAIN c.symbolAt
  BY <1>1 DEF Bind
<1>13. DOMAIN b.symbols \subseteq DOMAIN c.symbols
  BY <1>2
<1>14. QED
  BY <1>1, <1>2, <1>11, <1>12, <1>13 DEF c

LEMMA FunctionCreated ==
    ASSUME NEW b, Sound(b), DOMAIN b = DOMAIN EmptyBinary(0), NEW s \in Functions
    PROVE  LET c == CreateFunction(b, s)
           IN  /\ Sound(c)
               /\ c.symbols = b.symbols /\ c.symbolAt = b.symbolAt
               /\ DOMAIN b.functionAt \subseteq DOMAIN c.functionAt
<1> DEFINE c == CreateFunction(b, s)
           N == Len(b.functions)
<1>1. /\ c.functions = Append(b.functions, s) /\ c.functionAt = Bind(b.functionAt, s.start, N + 1)
      /\ c.symbols = b.symbols /\ c.symbolAt = b.symbolAt
  BY DEF CreateFunction, EmptyBinary
<1> HIDE DEF c
<1>2. /\ N \in Nat /\ c.functions \in Seq(Functions) /\ Len(c.functions) = N + 1
      /\ c.functions[N + 1] = s /\ DOMAIN b.functions = 1 .. N /\ DOMAIN c.functions = 1 .. N + 1
      /\ \A n \in 1 .. N : c.functions[n] = b.functions[n]
  BY <1>1, OneLonger DEF Sound
<1> HIDE DEF N
<1> DEFINE keys == Starts(b)
           more == Starts(c)
           K == {more[n] : n \in 1 .. N + 1}
<1>3. /\ keys = [n \in 1 .. N |-> b.functions[n].start]
      /\ more = [n \in 1 .. N + 1 |-> c.functions[n].start]
  BY <1>2 DEF Starts, N
<1>4. \A n \in 1 .. N : n \in 1 .. N + 1 /\ more[n] = keys[n]
  BY <1>2, <1>3
<1>5. more[N + 1] = s.start
  BY <1>2, <1>3
<1>6. DOMAIN keys = 1 .. N /\ DOMAIN more = 1 .. N + 1
  BY <1>3
<1> HIDE DEF keys, more
<1>7. keys \in [1 .. N -> K] /\ more \in [1 .. N + 1 -> K]
  BY <1>3, <1>4
<1>8. /\ keys \in Seq(K) /\ Len(keys) = N /\ more \in Seq(K) /\ Len(more) = N + 1
  <2>1. N \in Nat /\ N + 1 \in Nat
    BY <1>2
  <2> HIDE DEF K
  <2>2. QED
    BY <1>7, <2>1, ColumnIs
<1>9. IsLatest(c.functionAt, more)
  <2>1. IsLatest(b.functionAt, keys)
    BY DEF Sound, keys
  <2>2. IsLatest(Bind(b.functionAt, more[Len(more)], Len(more)), more)
    BY <1>4, <1>8, <2>1, LatestGrows
  <2>3. QED
    BY <1>1, <1>5, <1>8, <2>2
<1>10. Addresses(c) = Addresses(b)
  BY <1>1 DEF Addresses
<1>11. Sound(c)
  BY <1>1, <1>2, <1>9, <1>10 DEF Sound, more
<1>12. DOMAIN b.functionAt \subseteq DOMAIN c.functionAt
  BY <1>1 DEF Bind
<1>13. QED
  BY <1>1, <1>11, <1>12 DEF c

(* An index of less than everything.                                       *)
LEMMA SymbolsAdded ==
    ASSUME NEW b, NEW c, NEW i, NEW kinds, Indexed(i, b, kinds),
           c.functions = b.functions, c.functionAt = b.functionAt,
           DOMAIN b.symbols \subseteq DOMAIN c.symbols,
           \A id \in DOMAIN b.symbols : c.symbols[id] = b.symbols[id],
           DOMAIN b.symbolAt \subseteq DOMAIN c.symbolAt
    PROVE  Indexed(i, c, kinds \ {"SymbolByName", "SymbolByAddress", "StringLiteral"})
<1> DEFINE less == kinds \ {"SymbolByName", "SymbolByAddress", "StringLiteral"}
<1>1. /\ DOMAIN i = DOMAIN EmptyIndex
      /\ NamesIndexed(i, b, kinds) /\ PlacesIndexed(i, b, kinds) /\ CallsIndexed(i, b, kinds)
  BY DEF Indexed
<1>2. /\ "SymbolByAddress" \notin less /\ "SymbolByName" \notin less
      /\ "FunctionByAddress" \in less => "FunctionByAddress" \in kinds
      /\ "XRefIncoming" \in less => "XRefIncoming" \in kinds
  OBVIOUS
<1> HIDE DEF less
<1>3. NamesIndexed(i, c, less)
  <2>1. Seq(DOMAIN b.symbols) \subseteq Seq(DOMAIN c.symbols)
    BY SeqDef
  <2>2. i.byName \in [DOMAIN i.byName -> Seq(DOMAIN c.symbols)]
    BY <1>1, <2>1 DEF NamesIndexed
  <2>3. DOMAIN i.byName \subseteq {c.symbols[id].name : id \in DOMAIN c.symbols} \ {<< >>}
    BY <1>1 DEF NamesIndexed
  <2>4. ASSUME NEW name \in DOMAIN i.byName, NEW id \in ToSet(i.byName[name])
        PROVE  c.symbols[id].name = name
    <3>1. i.byName[name] \in Seq(DOMAIN b.symbols) /\ b.symbols[id].name = name
      BY <1>1 DEF NamesIndexed
    <3>2. id \in DOMAIN b.symbols
      BY <3>1 DEF ToSet
    <3>3. QED
      BY <3>1, <3>2
  <2>5. QED
    BY <1>2, <2>2, <2>3, <2>4 DEF NamesIndexed
<1>4. PlacesIndexed(i, c, less)
  BY <1>1, <1>2 DEF PlacesIndexed
<1>5. CallsIndexed(i, c, less)
  BY <1>1, <1>2 DEF CallsIndexed
<1>6. QED
  BY <1>1, <1>3, <1>4, <1>5 DEF Indexed, less

LEMMA FunctionsAdded ==
    ASSUME NEW b, NEW c, NEW i, NEW kinds, Indexed(i, b, kinds),
           c.symbols = b.symbols, c.symbolAt = b.symbolAt,
           DOMAIN b.functionAt \subseteq DOMAIN c.functionAt
    PROVE  Indexed(i, c, kinds \ {"FunctionByAddress", "InstructionByAddress",
                                  "XRefIncoming", "XRefOutgoing"})
<1> DEFINE less == kinds \ {"FunctionByAddress", "InstructionByAddress",
                            "XRefIncoming", "XRefOutgoing"}
<1>1. /\ DOMAIN i = DOMAIN EmptyIndex
      /\ NamesIndexed(i, b, kinds) /\ PlacesIndexed(i, b, kinds) /\ CallsIndexed(i, b, kinds)
  BY DEF Indexed
<1>2. /\ "SymbolByAddress" \in less => "SymbolByAddress" \in kinds
      /\ "SymbolByName" \in less => "SymbolByName" \in kinds
      /\ "FunctionByAddress" \notin less /\ "XRefIncoming" \notin less
  OBVIOUS
<1> HIDE DEF less
<1>3. NamesIndexed(i, c, less)
  BY <1>1, <1>2 DEF NamesIndexed
<1>4. PlacesIndexed(i, c, less)
  BY <1>1, <1>2 DEF PlacesIndexed
<1>5. CallsIndexed(i, c, less)
  BY <1>1, <1>2 DEF CallsIndexed
<1>6. QED
  BY <1>1, <1>3, <1>4, <1>5 DEF Indexed, less

LEMMA FewerTypes ==
    ASSUME NEW b, NEW i, NEW kinds, Indexed(i, b, kinds), NEW j, NEW less, less \subseteq kinds,
           DOMAIN j = DOMAIN i, j.byName = i.byName, j.symbolAt = i.symbolAt,
           j.functionAt = i.functionAt, j.incoming = i.incoming
    PROVE  Indexed(j, b, less)
<1>1. /\ DOMAIN i = DOMAIN EmptyIndex
      /\ NamesIndexed(i, b, kinds) /\ PlacesIndexed(i, b, kinds) /\ CallsIndexed(i, b, kinds)
  BY DEF Indexed
<1>3. NamesIndexed(j, b, less)
  BY <1>1 DEF NamesIndexed
<1>4. PlacesIndexed(j, b, less)
  BY <1>1 DEF PlacesIndexed
<1>5. CallsIndexed(j, b, less)
  BY <1>1 DEF CallsIndexed
<1>6. QED
  BY <1>1, <1>3, <1>4, <1>5 DEF Indexed

(* What holds of the index, of whatever binaries it was built.             *)
IndexHolds ==
    /\ Sound(bin) /\ DOMAIN idx = DOMAIN EmptyIndex
    /\ ~foreign => Indexed(idx, bin, current)

LEMMA IndexHoldsIs ==
    ASSUME DatabaseInv, IndexHolds
    PROVE  IndexInv
BY DEF IndexHolds, IndexInv, Sound, Indexed

LEMMA IndexHoldsInitially ==
    ASSUME NEW who, NEW b, DatabaseInit(who, b), b \in Loadable \/ b = EmptyBinary(0)
    PROVE  IndexHolds
<1>1. bin = b /\ idx = EmptyIndex /\ current = {}
  BY DEF DatabaseInit
<1>2. Sound(b)
  <2>1. CASE b \in Loadable
    BY <2>1, DatabaseAssumption DEF Sound
  <2>2. CASE b = EmptyBinary(0)
    <3>1. /\ b.symbols = << >> /\ b.functions = << >>
          /\ b.symbolAt = << >> /\ b.functionAt = << >>
      BY <2>2 DEF EmptyBinary
    <3>2. Addresses(b) = << >> /\ Starts(b) = << >>
      <4>1. Len(<< >>) = 0 /\ 1 .. 0 = {} /\ DOMAIN << >> = {}
        OBVIOUS
      <4>2. QED
        BY <3>1, <4>1 DEF Addresses, Starts
    <3>3. IsLatest(<< >>, << >>)
      BY DEF IsLatest
    <3>4. QED
      BY <3>1, <3>2, <3>3 DEF Sound
  <2>3. QED
    BY <2>1, <2>2
<1>3. QED
  BY <1>1, <1>2, EmptyIndexed DEF IndexHolds

LEMMA IndexHoldsKeeps ==
    ASSUME DatabaseInv, IndexHolds, [Next]_vars
    PROVE  IndexHolds'
<1>1. /\ DOMAIN bin = DOMAIN EmptyBinary(0) /\ Sound(bin) /\ DOMAIN idx = DOMAIN EmptyIndex
      /\ ~foreign => Indexed(idx, bin, current)
  BY DEF DatabaseInv, IndexHolds
<1>2. ASSUME bin' = bin, idx' = idx, current' = current, foreign' = foreign PROVE IndexHolds'
  BY <1>1, <1>2 DEF IndexHolds
<1>3. CASE UNCHANGED databaseVars
  BY <1>2, <1>3 DEF databaseVars
<1>4. ASSUME NEW s \in NewSymbols, AddSymbolToBinary(s) PROVE IndexHolds'
  <2>1. /\ bin' = CreateSymbol(bin, s) /\ idx' = idx /\ foreign' = foreign
        /\ current' = current \ {"SymbolByName", "SymbolByAddress", "StringLiteral"}
    BY <1>4 DEF AddSymbolToBinary
  <2>2. s \in Symbols
    BY DEF Symbols
  <2>3. /\ Sound(bin')
        /\ bin'.functions = bin.functions /\ bin'.functionAt = bin.functionAt
        /\ DOMAIN bin.symbols \subseteq DOMAIN bin'.symbols
        /\ \A id \in DOMAIN bin.symbols : bin'.symbols[id] = bin.symbols[id]
        /\ DOMAIN bin.symbolAt \subseteq DOMAIN bin'.symbolAt
    BY <1>1, <2>1, <2>2, SymbolCreated
  <2>4. ASSUME ~foreign PROVE Indexed(idx, bin', current')
    BY <1>1, <2>1, <2>3, <2>4, SymbolsAdded
  <2>5. QED
    BY <1>1, <2>1, <2>3, <2>4 DEF IndexHolds
<1>5. ASSUME NEW f \in NewFunctions, AddFunctionToBinary(f) PROVE IndexHolds'
  <2>1. /\ bin' = CreateFunction(bin, f) /\ idx' = idx /\ foreign' = foreign
        /\ current' = current \ {"FunctionByAddress", "InstructionByAddress",
                                 "XRefIncoming", "XRefOutgoing"}
    BY <1>5 DEF AddFunctionToBinary
  <2>2. f \in Functions
    BY DEF Functions
  <2>3. /\ Sound(bin') /\ bin'.symbols = bin.symbols /\ bin'.symbolAt = bin.symbolAt
        /\ DOMAIN bin.functionAt \subseteq DOMAIN bin'.functionAt
    BY <1>1, <2>1, <2>2, FunctionCreated
  <2>4. ASSUME ~foreign PROVE Indexed(idx, bin', current')
    BY <1>1, <2>1, <2>3, <2>4, FunctionsAdded
  <2>5. QED
    BY <1>1, <2>1, <2>3, <2>4 DEF IndexHolds
<1>6. ASSUME NEW b \in Loadable, LoadBinary(b) PROVE IndexHolds'
  <2>1. /\ bin' = b /\ idx' = idx /\ current' = {}
        /\ foreign' = (foreign \/ [idx EXCEPT !.built = {}] # EmptyIndex)
    BY <1>6 DEF LoadBinary
  <2>2. Sound(b)
    BY DatabaseAssumption DEF Sound
  <2>3. ASSUME ~foreign' PROVE Indexed(idx, b, {})
    <3>1. [idx EXCEPT !.built = {}] = EmptyIndex
      BY <2>1, <2>3
    <3>2. /\ idx.byName = EmptyIndex.byName /\ idx.symbolAt = EmptyIndex.symbolAt
          /\ idx.functionAt = EmptyIndex.functionAt /\ idx.incoming = EmptyIndex.incoming
      <4>1. /\ [idx EXCEPT !.built = {}].byName = idx.byName
            /\ [idx EXCEPT !.built = {}].symbolAt = idx.symbolAt
            /\ [idx EXCEPT !.built = {}].functionAt = idx.functionAt
            /\ [idx EXCEPT !.built = {}].incoming = idx.incoming
        BY <1>1 DEF EmptyIndex
      <4>2. QED
        BY <3>1, <4>1
    <3>3. QED
      BY <1>1, <3>2, EmptyIndexed, FewerTypes
  <2>4. QED
    BY <1>1, <2>1, <2>2, <2>3 DEF IndexHolds
<1>7. CASE BuildAll
  <2>1. /\ bin' = bin /\ idx' = Build(bin) /\ current' = ToSet(IndexTypes) /\ foreign' = FALSE
    BY <1>7 DEF BuildAll
  <2>2. Indexed(Build(bin), bin, ToSet(IndexTypes))
    BY <1>1, BuildIndexes
  <2>3. DOMAIN Build(bin) = DOMAIN EmptyIndex
    BY <2>2 DEF Indexed
  <2>4. QED
    BY <1>1, <2>1, <2>2, <2>3 DEF IndexHolds
<1>8. CASE Clear
  <2>1. bin' = bin /\ idx' = EmptyIndex /\ current' = {} /\ foreign' = FALSE
    BY <1>8 DEF Clear
  <2>2. QED
    BY <1>1, <2>1, EmptyIndexed DEF IndexHolds
<1>9. ASSUME NEW type \in IndexedTypes, BuildOne(type) PROVE IndexHolds'
  <2>1. /\ bin' = bin /\ idx' = BuildIndex(idx, bin, type) /\ foreign' = foreign
        /\ current' = current \cup {type}
    BY <1>9 DEF BuildOne
  <2>2. ASSUME ~foreign PROVE Indexed(idx', bin, current')
    BY <1>1, <2>1, <2>2, BuildIndexKeeps
  <2>3. DOMAIN idx' = DOMAIN EmptyIndex
    <3>1. Grown(idx, bin, type, idx')
      BY <1>1, <2>1, BodyIs
    <3>2. QED
      BY <1>1, <3>1 DEF Grown
  <2>4. QED
    BY <1>1, <2>1, <2>2, <2>3 DEF IndexHolds
<1>10. ASSUME NEW type \in IndexedTypes, ClearOne(type) PROVE IndexHolds'
  <2>1. /\ bin' = bin /\ idx' = [idx EXCEPT !.built = @ \ {type}] /\ foreign' = foreign
        /\ current' = current \ {type}
    BY <1>10 DEF ClearOne, ClearIndex
  <2>2. /\ DOMAIN idx' = DOMAIN idx /\ idx'.byName = idx.byName /\ idx'.symbolAt = idx.symbolAt
        /\ idx'.functionAt = idx.functionAt /\ idx'.incoming = idx.incoming
    BY <1>1, <2>1 DEF EmptyIndex
  <2>3. ASSUME ~foreign PROVE Indexed(idx', bin, current')
    <3>1. current' \subseteq current
      BY <2>1
    <3>2. QED
      BY <1>1, <2>2, <2>3, <3>1, FewerTypes
  <2>4. QED
    BY <1>1, <2>1, <2>2, <2>3 DEF IndexHolds
<1>11. CASE \E t \in Triggers : Trigger(t) \/ \E range \in Ranges : TriggerInRange(t, range)
  BY <1>2, <1>11 DEF Trigger, TriggerInRange
<1>12. CASE \E f \in DOMAIN bin.functions : TriggerInFunction(f) \/ MarkFunctionClean(f)
  BY <1>2, <1>12 DEF TriggerInFunction, MarkFunctionClean
<1>13. CASE (\E block \in DOMAIN bin.blocks : MarkBlockClean(block)) \/ MarkAllClean
  BY <1>2, <1>13 DEF MarkBlockClean, MarkAllClean
<1>14. CASE DatabaseNext
  BY <1>4, <1>5, <1>6, <1>7, <1>8, <1>9, <1>10, <1>11, <1>12, <1>13, <1>14, Zenon DEF DatabaseNext
<1>15. QED
  BY <1>3, <1>14 DEF Next, vars

(* What the index has is what the binary has, in whatever parts and        *)
(* however often it is built, while creation and loading go on.            *)
THEOREM IndexInductive == Spec => []IndexInv
<1>1. Init => IndexHolds
  BY IndexHoldsInitially DEF Init
<1>2. DatabaseInv /\ IndexHolds /\ [Next]_vars => IndexHolds'
  BY IndexHoldsKeeps
<1>3. DatabaseInv /\ IndexHolds => IndexInv
  BY IndexHoldsIs
<1>4. QED
  BY <1>1, <1>2, <1>3, DatabaseInductive, PTL DEF Spec

-----------------------------------------------------------------------------
(* The ways to look something up.                                          *)

LEMMA EmptyHasNoPart ==
    ASSUME NEW p, p # << >>
    PROVE  ~Occurs(p, << >>)
<1>1. ASSUME NEW i \in 0 .. Len(<< >>), NEW j \in 0 .. Len(<< >>), p = SubSeq(<< >>, i + 1, j)
      PROVE  FALSE
  <2>1. i = 0 /\ j = 0
    BY <1>1, EmptySeq
  <2>2. SubSeq(<< >>, 1, 0) = << >>
    OBVIOUS
  <2>3. QED
    BY <1>1, <2>1, <2>2
<1>2. QED
  BY <1>1 DEF Occurs

(* The names that have a pattern, and the lists under them.                *)
Having(i, p) == {name \in DOMAIN i.byName : Occurs(p, name)}
ListsOf(i, names) == [n \in 1 .. Len(names) |-> i.byName[names[n]]]
InPart(b, names) == [n \in 1 .. Len(names) |-> With(Names(b), names[n], Len(b.symbols))]
Selected(b, p) == {id \in DOMAIN b.symbols : Occurs(p, b.symbols[id].name)}

LEMMA QuerySelects ==
    ASSUME NEW b, NEW p
    PROVE  Selected(b, p) =
              {id \in DOMAIN b.symbols : SymbolMatches([AnySymbol EXCEPT !.name = {p}], b, id)}
<1> DEFINE filter == [AnySymbol EXCEPT !.name = {p}]
<1>1. /\ filter.name = {p} /\ filter.type = {} /\ filter.imports = TRUE /\ filter.exports = TRUE
  BY DEF AnySymbol
<1> HIDE DEF filter
<1>2. ASSUME NEW id \in DOMAIN b.symbols
      PROVE  SymbolMatches(filter, b, id) <=> Occurs(p, b.symbols[id].name)
  BY <1>1 DEF SymbolMatches, Has
<1>3. QED
  BY <1>2 DEF Selected, filter

LEMMA NamesInOrder ==
    ASSUME NEW b, Sound(b), NEW i, NEW kinds, NamesIndexed(i, b, kinds), NEW p
    PROVE  LET names == SetToSeq(Having(i, p))
               C == Cardinality(Having(i, p))
           IN  /\ C \in Nat /\ Len(names) = C /\ names \in [1 .. C -> Having(i, p)]
               /\ \A m, n \in 1 .. C : names[m] = names[n] => m = n
               /\ \A name \in Having(i, p) : \E n \in 1 .. C : names[n] = name
               /\ ListsOf(i, names) \in Seq(Seq(DOMAIN b.symbols))
               /\ Len(ListsOf(i, names)) = C
<1> DEFINE S == Having(i, p)
           names == SetToSeq(S)
           C == Cardinality(S)
           V == DOMAIN b.symbols
<1>1. Len(b.symbols) \in Nat /\ V = 1 .. Len(b.symbols)
  BY ColumnsAre
<1>2. IsFiniteSet(S)
  <2>1. IsFiniteSet(V)
    BY <1>1, FS_Interval
  <2> DEFINE name == [id \in V |-> b.symbols[id].name]
             T == {name[id] : id \in V}
  <2>2. IsFiniteSet({b.symbols[id].name : id \in V})
    <3>1. name \in Surjection(V, T)
      BY DEF Surjection
    <3>2. IsFiniteSet(T)
      <4> HIDE DEF name, T, V
      <4>1. QED
        BY <2>1, <3>1, FS_Surjection
    <3>3. T = {b.symbols[id].name : id \in V}
      OBVIOUS
    <3>4. QED
      BY <3>2, <3>3
  <2>3. S \subseteq {b.symbols[id].name : id \in V}
    BY DEF NamesIndexed, Having
  <2>4. QED
    BY <2>2, <2>3, FS_Subset
<1>3. /\ C \in Nat /\ names \in [1 .. C -> S]
      /\ \A m, n \in 1 .. C : names[m] = names[n] => m = n
      /\ \A name \in S : \E n \in 1 .. C : names[n] = name
  BY <1>2, SetInOrder
<1>4. i.byName \in [DOMAIN i.byName -> Seq(V)] /\ S \subseteq DOMAIN i.byName
  BY DEF NamesIndexed, Having
<1> HIDE DEF S, names, C, V
<1>5. Len(names) = C
  BY <1>3, ColumnIs
<1>6. ListsOf(i, names) \in [1 .. C -> Seq(V)]
  <2>1. \A n \in 1 .. C : i.byName[names[n]] \in Seq(V)
    BY <1>3, <1>4
  <2>2. ListsOf(i, names) = [n \in 1 .. C |-> i.byName[names[n]]]
    BY <1>5 DEF ListsOf
  <2>3. QED
    BY <2>1, <2>2
<1>7. ListsOf(i, names) \in Seq(Seq(V)) /\ Len(ListsOf(i, names)) = C
  BY <1>3, <1>6, ColumnIs
<1>8. QED
  BY <1>3, <1>5, <1>7 DEF S, names, C, V

LEMMA SubstringFinds ==
    ASSUME NEW b, Sound(b), NEW i, NEW kinds, NamesIndexed(i, b, kinds),
           "SymbolByAddress" \in kinds \/ "SymbolByName" \in kinds, NEW p, p # << >>
    PROVE  /\ FindSymbolsBySubstring(i, p) \in Seq(DOMAIN b.symbols)
           /\ ToSet(FindSymbolsBySubstring(i, p)) = Selected(b, p)
<1> DEFINE names == SetToSeq(Having(i, p))
           C == Cardinality(Having(i, p))
           lists == ListsOf(i, names)
           V == DOMAIN b.symbols
<1>1. FindSymbolsBySubstring(i, p) = FlattenSeq(lists)
  BY DEF FindSymbolsBySubstring, Having, ListsOf
<1>2. /\ C \in Nat /\ Len(names) = C /\ names \in [1 .. C -> Having(i, p)]
      /\ \A name \in Having(i, p) : \E n \in 1 .. C : names[n] = name
      /\ lists \in Seq(Seq(V)) /\ Len(lists) = C
  BY NamesInOrder
<1>3. \A n \in 1 .. C : lists[n] = i.byName[names[n]]
  BY <1>2 DEF ListsOf
<1>4. /\ i.byName \in [DOMAIN i.byName -> Seq(V)]
      /\ \A name \in DOMAIN i.byName : \A id \in ToSet(i.byName[name]) : b.symbols[id].name = name
      /\ \A id \in V : b.symbols[id].name # << >> => id \in ToSet(Held(i.byName, b.symbols[id].name))
  BY DEF NamesIndexed
<1> HIDE DEF names, C, lists, V
<1>5. /\ FlattenSeq(lists) \in Seq(V)
      /\ \A n \in 1 .. C : ToSet(lists[n]) \subseteq ToSet(FlattenSeq(lists))
      /\ \A x \in ToSet(FlattenSeq(lists)) : \E n \in 1 .. C : x \in ToSet(lists[n])
  BY <1>2, FlattenHolds
<1>6. ASSUME NEW id \in ToSet(FlattenSeq(lists)) PROVE id \in Selected(b, p)
  <2>1. PICK n \in 1 .. C : id \in ToSet(lists[n])
    BY <1>5
  <2>2. names[n] \in DOMAIN i.byName /\ Occurs(p, names[n])
    BY <1>2, <2>1 DEF Having
  <2>3. b.symbols[id].name = names[n]
    BY <1>3, <1>4, <2>1, <2>2
  <2>4. id \in V
    <3>1. ToSet(FlattenSeq(lists)) \subseteq V
      BY <1>5 DEF ToSet
    <3>2. QED
      BY <3>1
  <2>5. QED
    BY <2>2, <2>3, <2>4 DEF Selected, V
<1>7. ASSUME NEW id \in Selected(b, p) PROVE id \in ToSet(FlattenSeq(lists))
  <2> DEFINE name == b.symbols[id].name
  <2>1. id \in V /\ Occurs(p, name)
    BY DEF Selected, V
  <2>2. name # << >>
    BY <2>1, EmptyHasNoPart
  <2>3. id \in ToSet(Held(i.byName, name))
    BY <1>4, <2>1, <2>2
  <2> HIDE DEF name
  <2>4. name \in DOMAIN i.byName /\ id \in ToSet(i.byName[name])
    <3>1. CASE name \in DOMAIN i.byName
      BY <2>3, <3>1 DEF Held
    <3>2. CASE name \notin DOMAIN i.byName
      BY <2>3, <3>2 DEF Held, ToSet
    <3>3. QED
      BY <3>1, <3>2
  <2>5. name \in Having(i, p)
    BY <2>1, <2>4 DEF Having
  <2>6. PICK n \in 1 .. C : names[n] = name
    BY <1>2, <2>5
  <2>7. QED
    BY <1>3, <1>5, <2>4, <2>6
<1>8. QED
  BY <1>1, <1>5, <1>6, <1>7 DEF V

(* Of an index built whole.                                                *)
LEMMA SubstringCounts ==
    ASSUME NEW b, Sound(b), NEW p, p # << >>
    PROVE  Len(FindSymbolsBySubstring(Build(b), p)) = 2 * Cardinality(Selected(b, p))
<1> DEFINE i == Build(b)
           names == SetToSeq(Having(i, p))
           C == Cardinality(Having(i, p))
           lists == ListsOf(i, names)
           parts == InPart(b, names)
           keys == Names(b)
           N == Len(b.symbols)
           kinds == ToSet(IndexTypes)
<1>1. /\ Indexed(i, b, kinds)
      /\ \A name : Len(Held(i.byName, name)) = 2 * Cardinality(With(keys, name, N))
  BY BuildIndexes
<1>2. FindSymbolsBySubstring(i, p) = FlattenSeq(lists)
  BY DEF FindSymbolsBySubstring, Having, ListsOf
<1>3. N \in Nat /\ DOMAIN b.symbols = 1 .. N
  BY ColumnsAre
<1>4. \A id \in 1 .. N : \A k : k \in keys[id] <=> b.symbols[id].name = k /\ k # << >>
  BY DEF Names
<1>5. parts = [n \in 1 .. Len(names) |-> With(keys, names[n], N)]
  BY DEF InPart
<1> HIDE DEF i, kinds, keys
<1>6. NamesIndexed(i, b, kinds)
  BY <1>1 DEF Indexed
<1>7. /\ C \in Nat /\ Len(names) = C /\ names \in [1 .. C -> Having(i, p)]
      /\ \A m, n \in 1 .. C : names[m] = names[n] => m = n
      /\ \A name \in Having(i, p) : \E n \in 1 .. C : names[n] = name
      /\ lists \in Seq(Seq(DOMAIN b.symbols)) /\ Len(lists) = C
  BY <1>6, NamesInOrder
<1>8. \A n \in 1 .. C : lists[n] = i.byName[names[n]] /\ names[n] \in DOMAIN i.byName
  BY <1>7 DEF ListsOf, Having
<1> HIDE DEF names, C, lists, parts
<1>9. \A n \in 1 .. C : parts[n] = With(keys, names[n], N)
  BY <1>5, <1>7
<1>10. \A m, n \in 1 .. C : m # n => parts[m] \cap parts[n] = {}
  <2>1. ASSUME NEW m \in 1 .. C, NEW n \in 1 .. C, NEW id \in parts[m] \cap parts[n] PROVE m = n
    <3>1. id \in 1 .. N /\ names[m] \in keys[id] /\ names[n] \in keys[id]
      BY <1>9, <2>1 DEF With
    <3>2. names[m] = names[n]
      BY <1>4, <3>1
    <3>3. QED
      BY <1>7, <3>2
  <2>2. QED
    BY <2>1
<1>11. \A n \in 1 .. C : Len(lists[n]) = 2 * Cardinality(parts[n])
  BY <1>1, <1>8, <1>9 DEF Held
<1>12. UNION {parts[n] : n \in 1 .. C} = Selected(b, p)
  <2>1. ASSUME NEW n \in 1 .. C, NEW id \in parts[n] PROVE id \in Selected(b, p)
    <3>1. id \in 1 .. N /\ b.symbols[id].name = names[n]
      BY <1>4, <1>9 DEF With
    <3>2. Occurs(p, names[n])
      BY <1>7 DEF Having
    <3>3. QED
      BY <1>3, <3>1, <3>2 DEF Selected
  <2>2. ASSUME NEW id \in Selected(b, p) PROVE \E n \in 1 .. C : id \in parts[n]
    <3> DEFINE name == b.symbols[id].name
    <3>1. id \in 1 .. N /\ Occurs(p, name)
      BY <1>3 DEF Selected
    <3>2. name # << >>
      BY <3>1, EmptyHasNoPart
    <3>3. name \in DOMAIN i.byName
      <4>1. "SymbolByName" \in kinds
        BY DEF kinds, IndexTypes, ToSet
      <4>2. id \in ToSet(Held(i.byName, name))
        BY <1>3, <1>6, <3>1, <3>2, <4>1 DEF NamesIndexed
      <4> HIDE DEF name
      <4>3. QED
        BY <4>2 DEF Held, ToSet
    <3>4. name \in Having(i, p)
      BY <3>1, <3>3 DEF Having
    <3>5. PICK n \in 1 .. C : names[n] = name
      BY <1>7, <3>4
    <3>6. id \in With(keys, names[n], N)
      BY <1>4, <3>1, <3>2, <3>5 DEF With
    <3>7. QED
      BY <1>9, <3>6
  <2>3. QED
    BY <2>1, <2>2
<1>13. Len(FlattenSeq(lists)) = 2 * Cardinality(Selected(b, p))
  <2>1. IsFiniteSet(Selected(b, p))
    <3>1. IsFiniteSet(1 .. N) /\ Selected(b, p) \subseteq 1 .. N
      <4> HIDE DEF N
      <4>1. QED
        BY <1>3, FS_Interval DEF Selected
    <3>2. QED
      BY <3>1, FS_Subset
  <2>2. Parted(lists, parts, Selected(b, p))
    BY <1>7, <1>10, <1>11, <1>12, <2>1 DEF Parted
  <2> DEFINE V == DOMAIN b.symbols
  <2>3. lists \in Seq(Seq(V))
    BY <1>7
  <2> HIDE DEF V
  <2>4. QED
    BY <2>2, <2>3, FlattenCounts
<1>14. QED
  BY <1>2, <1>13 DEF i

LEMMA SearchesAgree ==
    ASSUME IndexHolds
    PROVE  SearchAgreesWithQuery
<1> SUFFICES ASSUME ~foreign, "SymbolByAddress" \in current \/ "SymbolByName" \in current,
                    NEW p \in Patterns
             PROVE  LET selected == {id \in DOMAIN bin.symbols :
                                        SymbolMatches([AnySymbol EXCEPT !.name = {p}], bin, id)}
                    IN  /\ ToSet(FindSymbolsBySubstring(idx, p)) = selected
                        /\ idx = Build(bin) /\ 2 * Cardinality(selected) <= MaxResults =>
                              ToSet(Search(idx, "Substring", p, MaxResults)) = selected
  BY DEF SearchAgreesWithQuery
<1> DEFINE selected == Selected(bin, p)
           found == FindSymbolsBySubstring(idx, p)
           V == DOMAIN bin.symbols
<1>1. Sound(bin) /\ Indexed(idx, bin, current) /\ MaxResults \in Nat /\ p # << >>
  <2>1. Sound(bin) /\ Indexed(idx, bin, current)
    BY DEF IndexHolds
  <2>2. MaxResults \in Nat
    BY DatabaseAssumption, Zenon
  <2>3. p # << >>
    BY DEF Patterns
  <2>4. QED
    BY <2>1, <2>2, <2>3
<1>2. found \in Seq(V) /\ ToSet(found) = selected
  <2>1. NamesIndexed(idx, bin, current)
    BY <1>1 DEF Indexed
  <2>2. QED
    BY <1>1, <2>1, SubstringFinds
<1>3. selected = {id \in DOMAIN bin.symbols :
                     SymbolMatches([AnySymbol EXCEPT !.name = {p}], bin, id)}
  BY QuerySelects
<1>4. ASSUME idx = Build(bin), 2 * Cardinality(selected) <= MaxResults
      PROVE  ToSet(Search(idx, "Substring", p, MaxResults)) = selected
  <2>1. Len(found) = 2 * Cardinality(selected)
    BY <1>1, <1>4, SubstringCounts
  <2>2. Search(idx, "Substring", p, MaxResults) =
           SubSeq(found, 1, IF Len(found) > MaxResults THEN MaxResults ELSE Len(found))
    BY DEF Search
  <2> HIDE DEF found, selected, V
  <2>3. Len(found) \in Nat /\ ~(Len(found) > MaxResults)
    <3>1. Len(found) \in Nat
      BY <1>2, LenProperties
    <3>2. QED
      BY <1>1, <1>4, <2>1, <3>1
  <2>4. SubSeq(found, 1, Len(found)) = found
    BY <1>2, SubSeqFull
  <2>5. QED
    BY <1>2, <2>2, <2>3, <2>4
<1> HIDE DEF selected
<1>5. QED
  BY <1>2, <1>3, <1>4

(* The keys of a map above and below a number.                             *)
LEMMA LeastIs ==
    ASSUME NEW S \in SUBSET Int, NEW a \in S, \A k \in S : a <= k
    PROVE  Min(S) = a
<1>1. \E x \in S : \A y \in S : x =< y
  OBVIOUS
<1>2. Min(S) \in S /\ \A y \in S : Min(S) =< y
  BY <1>1 DEF Min
<1> DEFINE m == Min(S)
<1>3. m \in Int /\ m <= a /\ a <= m
  <2>1. m \in S /\ m =< a
    BY <1>2
  <2> HIDE DEF m
  <2>2. QED
    BY <2>1
<1>4. QED
  <2> HIDE DEF m
  <2>1. m = a
    BY <1>3
  <2>2. QED
    BY <2>1 DEF m

LEMMA GreatestIs ==
    ASSUME NEW S \in SUBSET Int, NEW a \in S, \A k \in S : k <= a
    PROVE  Max(S) = a
<1>1. \E x \in S : \A y \in S : x >= y
  OBVIOUS
<1>2. Max(S) \in S /\ \A y \in S : Max(S) >= y
  BY <1>1 DEF Max
<1> DEFINE m == Max(S)
<1>3. m \in Int /\ m <= a /\ a <= m
  <2>1. m \in S /\ m >= a
    BY <1>2
  <2> HIDE DEF m
  <2>2. QED
    BY <2>1
<1>4. QED
  <2> HIDE DEF m
  <2>1. m = a
    BY <1>3
  <2>2. QED
    BY <2>1 DEF m

LEMMA LowestIsOne ==
    ASSUME NEW S \in SUBSET Int, S # {}, NEW bound \in Int, \A k \in S : k > bound
    PROVE  Min(S) \in S
<1> DEFINE T == {k - bound : k \in S}
<1>1. T \in SUBSET Nat /\ T # {}
  <2>1. ASSUME NEW k \in S PROVE k - bound \in Nat
    <3>1. k \in Int /\ k > bound
      OBVIOUS
    <3>2. QED
      BY <3>1
  <2>2. QED
    BY <2>1
<1>2. PICK m \in T : \A n \in T : m <= n
  BY <1>1, LeastNumber
<1>3. PICK x \in S : m = x - bound
  OBVIOUS
<1>4. ASSUME NEW y \in S PROVE x =< y
  <2>1. m <= y - bound
    BY <1>2
  <2>2. QED
    BY <1>3, <2>1
<1>5. QED
  BY <1>4 DEF Min

LEMMA KeysAround ==
    ASSUME NEW map, DOMAIN map \subseteq Int, NEW a \in Int
    PROVE  a \in DOMAIN map <=> NextKey(map, a - 1) = {a} /\ PrevKey(map, a + 1) = {a}
<1> DEFINE above == {k \in DOMAIN map : k > a - 1}
           below == {k \in DOMAIN map : k < a + 1}
<1>1. /\ NextKey(map, a - 1) = IF above = {} THEN {} ELSE {Min(above)}
      /\ PrevKey(map, a + 1) = IF below = {} THEN {} ELSE {Max(below)}
  BY DEF NextKey, PrevKey
<1>2. ASSUME a \in DOMAIN map PROVE NextKey(map, a - 1) = {a} /\ PrevKey(map, a + 1) = {a}
  <2>1. above \in SUBSET Int /\ a \in above /\ \A k \in above : a <= k
    BY <1>2
  <2>2. below \in SUBSET Int /\ a \in below /\ \A k \in below : k <= a
    BY <1>2
  <2> HIDE DEF above, below
  <2>3. Min(above) = a /\ Max(below) = a
    BY <2>1, <2>2, LeastIs, GreatestIs
  <2>4. QED
    BY <1>1, <2>1, <2>2, <2>3
<1>3. ASSUME NextKey(map, a - 1) = {a} PROVE a \in DOMAIN map
  <2>1. above \in SUBSET Int /\ (\A k \in above : k > a - 1) /\ above \subseteq DOMAIN map
    OBVIOUS
  <2>2. a - 1 \in Int
    OBVIOUS
  <2> HIDE DEF above, below
  <2>3. above # {} /\ Min(above) = a
    BY <1>1, <1>3
  <2>4. Min(above) \in above
    BY <2>1, <2>2, <2>3, LowestIsOne
  <2>5. QED
    BY <2>1, <2>3, <2>4
<1>4. QED
  BY <1>2, <1>3

LEMMA WalksAgree ==
    ASSUME IndexHolds
    PROVE  FunctionQueriesAgree
<1> SUFFICES ASSUME ~foreign, {"FunctionByAddress", "XRefIncoming"} \subseteq current
             PROVE  FunctionQueriesAgree
  BY DEF FunctionQueriesAgree
<1> DEFINE map == idx.functionAt
           F == DOMAIN bin.functions
<1>1. /\ Sound(bin) /\ Indexed(idx, bin, current)
      /\ "FunctionByAddress" \in current /\ "XRefIncoming" \in current
  BY DEF IndexHolds
<1>2. map = bin.functionAt
  BY <1>1 DEF Indexed, PlacesIndexed
<1>3. DOMAIN map = {bin.functions[f].start : f \in F} /\ \A f \in F : bin.functions[f].start \in Int
  <2>1. Starts(bin) = [f \in 1 .. Len(bin.functions) |-> bin.functions[f].start]
    BY DEF Starts
  <2>2. F = 1 .. Len(bin.functions)
    BY <1>1, ColumnsAre
  <2>3. DOMAIN Starts(bin) = F /\ \A f \in F : Starts(bin)[f] = bin.functions[f].start
    BY <2>1, <2>2
  <2>4. DOMAIN bin.functionAt = {Starts(bin)[f] : f \in DOMAIN Starts(bin)}
    BY <1>1 DEF Sound, IsLatest
  <2>5. DOMAIN map = {bin.functions[f].start : f \in F}
    BY <1>2, <2>3, <2>4
  <2>6. ASSUME NEW f \in F PROVE bin.functions[f].start \in Int
    <3>1. bin.functions[f] \in Functions
      BY <1>1, <2>2, ElementOfSeq DEF Sound
    <3>2. QED
      BY <3>1, DatabaseAssumption
  <2>7. QED
    BY <2>5, <2>6
<1> HIDE DEF F
<1>4. ASSUME NEW r \in Ranges
      PROVE  {bin.functions[f].start :
                 f \in {g \in DOMAIN bin.functions :
                           AddressMatchesFunction([range |-> {r}], bin, g)}}
             = {a \in r.start .. r.end - 1 : /\ NextKey(map, a - 1) = {a}
                                             /\ PrevKey(map, a + 1) = {a}}
  <2>1. r.start \in Int /\ r.end \in Int
    BY DatabaseAssumption
  <2>2. \A g \in F : AddressMatchesFunction([range |-> {r}], bin, g) <=>
                        r.start <= bin.functions[g].start /\ bin.functions[g].start < r.end
    BY DEF AddressMatchesFunction, InRange, Has, F
  <2> DEFINE within == {a \in DOMAIN map : r.start <= a /\ a < r.end}
  <2>3. {bin.functions[f].start :
            f \in {g \in F : AddressMatchesFunction([range |-> {r}], bin, g)}} = within
    BY <1>3, <2>2
  <2>4. DOMAIN map \subseteq Int
    BY <1>3
  <2> HIDE DEF map
  <2>5. \A a \in Int : a \in DOMAIN map <=> NextKey(map, a - 1) = {a} /\ PrevKey(map, a + 1) = {a}
    BY <2>4, KeysAround
  <2>6. \A a \in Int : a \in r.start .. r.end - 1 <=> r.start <= a /\ a < r.end
    BY <2>1
  <2>7. r.start .. r.end - 1 \subseteq Int
    BY <2>1
  <2>8. within = {a \in r.start .. r.end - 1 : /\ NextKey(map, a - 1) = {a}
                                               /\ PrevKey(map, a + 1) = {a}}
    BY <2>4, <2>5, <2>6, <2>7
  <2>9. QED
    BY <2>3, <2>8 DEF F
<1>5. ASSUME NEW f \in DOMAIN bin.functions,
             FunctionMatches([AnyFunction EXCEPT !.hasXrefsIn = {TRUE}], bin, f)
      PROVE  \E x \in ToSet(bin.functions[f].callsIn) : x \in ToSet(Held(idx.incoming, x.to))
  <2> DEFINE filter == [AnyFunction EXCEPT !.hasXrefsIn = {TRUE}]
             calls == bin.functions[f].callsIn
  <2>1. filter.hasXrefsIn = {TRUE}
    BY DEF AnyFunction
  <2>2. \A wanted \in filter.hasXrefsIn : (calls # << >>) = wanted
    <3> HIDE DEF filter
    <3>1. FunctionMatches(filter, bin, f)
      BY <1>5 DEF filter
    <3>2. QED
      BY <3>1, Zenon DEF FunctionMatches
  <2>3. calls # << >>
    <3>1. TRUE \in filter.hasXrefsIn
      BY <2>1
    <3>2. (calls # << >>) = TRUE
      BY <2>2, <3>1, Zenon
    <3>3. QED
      BY <3>2
  <2>4. calls \in Seq(AnyXref)
    <3>1. bin.functions[f] \in Functions
      <4>1. f \in 1 .. Len(bin.functions)
        BY <1>1, ColumnsAre
      <4>2. QED
        BY <1>1, <4>1, ElementOfSeq DEF Sound
    <3>2. QED
      BY <3>1, DatabaseAssumption
  <2> HIDE DEF calls
  <2>5. 1 \in DOMAIN calls
    <3>1. Len(calls) \in Nat /\ Len(calls) # 0 /\ DOMAIN calls = 1 .. Len(calls)
      BY <2>3, <2>4, LenProperties, EmptySeq
    <3>2. QED
      BY <3>1
  <2>6. calls[1] \in ToSet(calls)
    BY <2>5 DEF ToSet
  <2>7. \A x \in ToSet(calls) : x \in ToSet(Held(idx.incoming, x.to))
    BY <1>1 DEF Indexed, CallsIndexed, calls
  <2>8. QED
    BY <2>6, <2>7 DEF calls
<1>6. ASSUME NEW p
      PROVE  FindFunctionsByName(bin, p) \subseteq {map[a] : a \in DOMAIN map}
  <2>1. ASSUME NEW a, FindAt(bin.functionAt, a) # Invalid
        PROVE  FindAt(bin.functionAt, a) \in {map[k] : k \in DOMAIN map}
    BY <1>2, <2>1 DEF FindAt
  <2> HIDE DEF map
  <2>2. QED
    BY <2>1 DEF FindFunctionsByName
<1>7. QED
  BY <1>4, <1>5, <1>6 DEF FunctionQueriesAgree

(* Whatever a client creates, builds, clears and loads, the index finds    *)
(* what the binary finds, a search by name what a query selects, and a     *)
(* walk over the functions or their references comes by all of them.       *)
THEOREM QueriesAreOne == Spec => []QueriesAgree
<1>1. Init => IndexHolds
  BY IndexHoldsInitially DEF Init
<1>2. DatabaseInv /\ IndexHolds /\ [Next]_vars => IndexHolds'
  BY IndexHoldsKeeps
<1>3. ASSUME IndexHolds PROVE QueriesAgree
  <2>1. IndexFindsWhatBinaryFinds
    BY <1>3 DEF IndexHolds, Indexed, PlacesIndexed, IndexFindsWhatBinaryFinds
  <2>2. QED
    BY <1>3, <2>1, SearchesAgree, WalksAgree DEF QueriesAgree
<1>4. QED
  BY <1>1, <1>2, <1>3, DatabaseInductive, PTL DEF Spec

-----------------------------------------------------------------------------
(* References.  What is kept of a list.                                    *)

LEMMA KeptIs ==
    ASSUME NEW V, NEW list \in Seq(V), NEW S
    PROVE  /\ Kept(list, S) \in Seq(V)
           /\ ToSet(Kept(list, S)) = ToSet(list) \cap S
<1> DEFINE N == Len(list)
           parts == [n \in 1 .. N |-> IF list[n] \in S THEN << list[n] >> ELSE << >>]
<1>1. N \in Nat /\ DOMAIN list = 1 .. N /\ \A n \in 1 .. N : list[n] \in V
  BY LenProperties, ElementOfSeq
<1>2. ASSUME NEW n \in 1 .. N
      PROVE  parts[n] \in Seq(V) /\ ToSet(parts[n]) = {list[n]} \cap S
  <2>1. CASE list[n] \in S
    <3>1. parts[n] = << list[n] >>
      BY <2>1
    <3>2. << list[n] >> \in Seq(V) /\ ToSet(<< list[n] >>) = {list[n]}
      BY <1>1 DEF ToSet
    <3>3. QED
      BY <2>1, <3>1, <3>2
  <2>2. CASE list[n] \notin S
    <3>1. parts[n] = << >>
      BY <2>2
    <3>2. << >> \in Seq(V) /\ ToSet(<< >>) = {}
      BY EmptySeq DEF ToSet
    <3>3. QED
      BY <2>2, <3>1, <3>2
  <2>3. QED
    BY <2>1, <2>2
<1>3. parts \in [1 .. N -> Seq(V)]
  BY <1>2
<1>4. Kept(list, S) = FlattenSeq(parts)
  BY DEF Kept
<1> HIDE DEF parts, N
<1>5. parts \in Seq(Seq(V)) /\ Len(parts) = N
  BY <1>1, <1>3, IsASeq, LenProperties
<1>6. /\ FlattenSeq(parts) \in Seq(V)
      /\ \A n \in 1 .. N : ToSet(parts[n]) \subseteq ToSet(FlattenSeq(parts))
      /\ \A x \in ToSet(FlattenSeq(parts)) : \E n \in 1 .. N : x \in ToSet(parts[n])
  BY <1>5, FlattenHolds
<1>7. ToSet(list) = {list[n] : n \in 1 .. N}
  BY <1>1 DEF ToSet
<1>8. \A n \in 1 .. N : ToSet(parts[n]) = {list[n]} \cap S
  BY <1>2
<1>9. ToSet(FlattenSeq(parts)) = ToSet(list) \cap S
  BY <1>6, <1>7, <1>8
<1>10. QED
  BY <1>4, <1>6, <1>9

(* One more list behind the others.                                        *)
LEMMA FlattenMore ==
    ASSUME NEW V, NEW lists \in Seq(Seq(V)), NEW s \in Seq(V)
    PROVE  FlattenSeq(Append(lists, s)) = FlattenSeq(lists) \o s
<1> DEFINE N == Len(lists)
           more == Append(lists, s)
<1>1. /\ more \in Seq(Seq(V)) /\ Len(more) = N + 1 /\ N \in Nat /\ more[N + 1] = s
      /\ \A n \in 1 .. N : more[n] = lists[n]
  BY AppendProperties, LenProperties
<1>2. PICK g : Flattening(V, lists, g)
  BY FlattenedBy
<1>3. PICK h : Flattening(V, more, h)
  BY <1>1, FlattenedBy
<1> HIDE DEF more, N
<1>4. g[0] = << >> /\ FlattenSeq(lists) = g[N] /\ \A n \in 1 .. N : g[n] = g[n - 1] \o lists[n]
  BY <1>2 DEF Flattening, N
<1>5. /\ h[0] = << >> /\ FlattenSeq(more) = h[N + 1]
      /\ \A n \in 1 .. N + 1 : h[n] = h[n - 1] \o more[n]
  BY <1>1, <1>3 DEF Flattening
<1> DEFINE P == {n \in 0 .. N : h[n] = g[n]}
<1>6. 0 \in P
  BY <1>1, <1>4, <1>5
<1>7. ASSUME NEW n \in 1 .. N, n - 1 \in P PROVE n \in P
  <2>1. n \in 1 .. N + 1 /\ n \in 0 .. N /\ h[n - 1] = g[n - 1] /\ more[n] = lists[n]
    BY <1>1, <1>7
  <2>2. QED
    BY <1>4, <1>5, <2>1
<1>8. N \in P
  <2> HIDE DEF P
  <2>1. \A n \in 0 .. N : n \in P
    BY <1>1, <1>6, <1>7, Induction
  <2>2. QED
    BY <1>1, <2>1
<1>9. h[N + 1] = h[N] \o s
  <2>1. N + 1 \in 1 .. N + 1 /\ (N + 1) - 1 = N
    BY <1>1
  <2>2. h[N + 1] = h[(N + 1) - 1] \o more[N + 1]
    BY <1>5, <2>1
  <2>3. QED
    BY <1>1, <2>1, <2>2
<1>10. h[N] = FlattenSeq(lists)
  BY <1>4, <1>8
<1>11. QED
  BY <1>5, <1>9, <1>10 DEF more

LEMMA FlattenNone == FlattenSeq(<< >>) = << >>
<1>1. Len(<< >>) = 0
  BY EmptySeq
<1>2. QED
  BY <1>1 DEF FlattenSeq

-----------------------------------------------------------------------------
(* What the analysers read.                                                *)

LEMMA CodeIs ==
    ASSUME NEW b, IsCode(b)
    PROVE  /\ b.insns \in Seq(IrInstruction) /\ b.blocks \in Seq(IrBlock)
           /\ b.sections \in Seq(IrSection)
           /\ b.functions \in Seq(ToSet(b.functions)) /\ b.symbols \in Seq(ToSet(b.symbols))
           /\ b.sectionAt \in [DOMAIN b.sectionAt -> DOMAIN b.sections]
           /\ b.functionAt \in [DOMAIN b.functionAt -> DOMAIN b.functions]
           /\ b.symbolAt \in [DOMAIN b.symbolAt -> DOMAIN b.symbols]
           /\ DOMAIN b = DOMAIN EmptyBinary(0)
BY DEF IsCode

LEMMA FunctionOf ==
    ASSUME NEW b, IsCode(b), NEW id \in DOMAIN b.functions
    PROVE  /\ b.functions[id].blocks \in Seq(Nat)
           /\ b.functions[id].callsIn \in Seq(IrXref)
           /\ b.functions[id].callsOut \in Seq(IrXref)
           /\ DOMAIN b.functions[id] = DOMAIN NewFunction
<1>1. b.functions[id] \in ToSet(b.functions)
  BY DEF ToSet
<1>2. QED
  BY <1>1 DEF IsCode

LEMMA InsnIdsAre ==
    ASSUME NEW b, IsCode(b), NEW f, f.blocks \in Seq(Nat)
    PROVE  InsnIds(b, f) \in Seq(DOMAIN b.insns)
<1> DEFINE N == Len(f.blocks)
           parts == [k \in 1 .. N |-> IF Has(b.blocks, f.blocks[k])
                                      THEN Kept(b.blocks[f.blocks[k]].insns, DOMAIN b.insns)
                                      ELSE << >>]
<1>1. N \in Nat
  BY LenProperties
<1>2. ASSUME NEW k \in 1 .. N PROVE parts[k] \in Seq(DOMAIN b.insns)
  <2>1. CASE Has(b.blocks, f.blocks[k])
    <3> DEFINE list == b.blocks[f.blocks[k]].insns
    <3>1. b.blocks[f.blocks[k]] \in IrBlock
      <4>1. b.blocks \in Seq(IrBlock) /\ f.blocks[k] \in DOMAIN b.blocks
        BY <2>1, CodeIs DEF Has
      <4>2. QED
        BY <4>1
    <3>2. list \in Seq(Nat)
      BY <3>1 DEF IrBlock
    <3> HIDE DEF list
    <3>3. /\ Kept(list, DOMAIN b.insns) \in Seq(Nat)
          /\ ToSet(Kept(list, DOMAIN b.insns)) = ToSet(list) \cap DOMAIN b.insns
      BY <3>2, KeptIs
    <3>4. Kept(list, DOMAIN b.insns) \in Seq(DOMAIN b.insns)
      <4> DEFINE kept == Kept(list, DOMAIN b.insns)
      <4>1. DOMAIN kept = 1 .. Len(kept) /\ Len(kept) \in Nat /\ kept \in [1 .. Len(kept) -> Nat]
        BY <3>3, LenProperties
      <4>2. ASSUME NEW n \in 1 .. Len(kept) PROVE kept[n] \in DOMAIN b.insns
        <5>1. kept[n] \in ToSet(kept)
          BY <4>1 DEF ToSet
        <5>2. QED
          BY <3>3, <5>1
      <4> HIDE DEF kept
      <4>3. kept \in [1 .. Len(kept) -> DOMAIN b.insns]
        BY <4>1, <4>2
      <4>4. kept \in Seq(DOMAIN b.insns)
        BY <4>1, <4>3, IsASeq
      <4>5. QED
        BY <4>4 DEF kept
    <3>5. parts[k] = Kept(list, DOMAIN b.insns)
      BY <2>1 DEF list
    <3>6. QED
      BY <3>4, <3>5
  <2>2. CASE ~Has(b.blocks, f.blocks[k])
    BY <2>2, EmptySeq
  <2>3. QED
    BY <2>1, <2>2
<1>3. parts \in [1 .. N -> Seq(DOMAIN b.insns)]
  BY <1>2
<1>4. InsnIds(b, f) = FlattenSeq(parts)
  BY DEF InsnIds
<1> HIDE DEF parts, N
<1>5. parts \in Seq(Seq(DOMAIN b.insns))
  BY <1>1, <1>3, IsASeq
<1>6. QED
  BY <1>4, <1>5, FlattenHolds

LEMMA OperandsAre ==
    ASSUME NEW insn \in IrInstruction, NEW kind
    PROVE  /\ insn.operands \in Seq(IrOperand)
           /\ Operands(insn, kind) \in Seq(IrOperand)
           /\ ToSet(Operands(insn, kind)) = {o \in ToSet(insn.operands) : o.kind = kind}
<1>1. insn.operands \in Seq(IrOperand)
  BY DEF IrInstruction
<1> DEFINE S == {o \in ToSet(insn.operands) : o.kind = kind}
<1>2. Operands(insn, kind) = Kept(insn.operands, S)
  BY DEF Operands
<1>3. S \subseteq ToSet(insn.operands)
  OBVIOUS
<1> HIDE DEF S
<1>4. /\ Kept(insn.operands, S) \in Seq(IrOperand)
      /\ ToSet(Kept(insn.operands, S)) = ToSet(insn.operands) \cap S
  BY <1>1, KeptIs
<1>5. ToSet(Operands(insn, kind)) = S
  BY <1>2, <1>3, <1>4
<1>6. QED
  BY <1>1, <1>2, <1>4, <1>5 DEF S

(* An operand of an instruction, where it is.                              *)
Located == [from : Nat, to : Nat, is : {"call", "branch", "return", "other"}]

IsOperandOf(o, kind, insn) ==
    /\ o.from = insn.address /\ o.is = insn.is
    /\ \E k \in DOMAIN Operands(insn, kind) : Operands(insn, kind)[k].to = o.to

LEMMA OperandsOfAre ==
    ASSUME NEW b, IsCode(b), NEW f, f.blocks \in Seq(Nat), NEW kind
    PROVE  /\ OperandsOf(b, f, kind) \in Seq(Located)
           /\ \A o \in ToSet(OperandsOf(b, f, kind)) :
                \E n \in DOMAIN b.insns : IsOperandOf(o, kind, b.insns[n])
<1> DEFINE ids == InsnIds(b, f)
           N == Len(ids)
           Insn(n) == b.insns[ids[n]]
           Chosen(n) == Operands(Insn(n), kind)
           Part(n) == [k \in 1 .. Len(Chosen(n)) |->
                          [from |-> Insn(n).address, to |-> Chosen(n)[k].to, is |-> Insn(n).is]]
           parts == [n \in 1 .. N |-> Part(n)]
<1>1. ids \in Seq(DOMAIN b.insns) /\ N \in Nat
  BY InsnIdsAre, LenProperties
<1>2. \A n \in 1 .. N : ids[n] \in DOMAIN b.insns /\ Insn(n) \in IrInstruction
  <2>1. b.insns \in Seq(IrInstruction)
    BY CodeIs
  <2>2. \A n \in 1 .. N : ids[n] \in DOMAIN b.insns
    BY <1>1, ElementOfSeq
  <2>3. QED
    BY <2>1, <2>2
<1>3. OperandsOf(b, f, kind) = FlattenSeq(parts)
  BY Zenon DEF OperandsOf
<1> HIDE DEF ids, N
<1>4. ASSUME NEW n \in 1 .. N
      PROVE  /\ Part(n) \in Seq(Located)
             /\ \A o \in ToSet(Part(n)) : IsOperandOf(o, kind, Insn(n))
  <2> DEFINE insn == Insn(n)
             chosen == Operands(insn, kind)
             L == Len(chosen)
  <2>1. insn \in IrInstruction
    BY <1>2
  <2>2. chosen \in Seq(IrOperand) /\ L \in Nat /\ DOMAIN chosen = 1 .. L
    BY <2>1, OperandsAre, LenProperties
  <2>3. ASSUME NEW k \in 1 .. L PROVE chosen[k].to \in Nat
    <3>1. chosen[k] \in IrOperand
      <4> HIDE DEF chosen
      <4>1. QED
        BY <2>2
    <3>2. QED
      BY <3>1 DEF IrOperand
  <2>4. insn.address \in Nat /\ insn.is \in {"call", "branch", "return", "other"}
    BY <2>1 DEF IrInstruction
  <2> DEFINE located == [k \in 1 .. L |-> [from |-> insn.address, to |-> chosen[k].to, is |-> insn.is]]
  <2>5. located = Part(n)
    OBVIOUS
  <2> HIDE DEF insn, L
  <2>6. ASSUME NEW k \in 1 .. L PROVE located[k] \in Located /\ IsOperandOf(located[k], kind, insn)
    <3>1. k \in DOMAIN Operands(insn, kind)
      BY <2>2
    <3>2. located[k].from = insn.address /\ located[k].is = insn.is /\ located[k].to = Operands(insn, kind)[k].to
      OBVIOUS
    <3>3. located[k] \in Located
      BY <2>3, <2>4 DEF Located
    <3>4. QED
      BY <3>1, <3>2, <3>3 DEF IsOperandOf
  <2>7. located \in Seq(Located) /\ DOMAIN located = 1 .. L
    <3>1. located \in [1 .. L -> Located]
      BY <2>6
    <3>2. QED
      BY <2>2, <3>1, IsASeq
  <2> HIDE DEF located, chosen
  <2>8. \A o \in ToSet(located) : IsOperandOf(o, kind, insn)
    BY <2>6, <2>7 DEF ToSet
  <2>9. QED
    BY <2>5, <2>7, <2>8 DEF insn
<1>5. parts \in [1 .. N -> Seq(Located)] /\ \A n \in 1 .. N : parts[n] = Part(n)
  <2> HIDE DEF Part
  <2>1. QED
    BY <1>4
<1> HIDE DEF parts
<1>6. parts \in Seq(Seq(Located)) /\ Len(parts) = N
  BY <1>1, <1>5, IsASeq, LenProperties
<1>7. /\ FlattenSeq(parts) \in Seq(Located)
      /\ \A x \in ToSet(FlattenSeq(parts)) : \E n \in 1 .. N : x \in ToSet(parts[n])
  BY <1>6, FlattenHolds
<1>8. ASSUME NEW o \in ToSet(FlattenSeq(parts))
      PROVE  \E n \in DOMAIN b.insns : IsOperandOf(o, kind, b.insns[n])
  <2>1. PICK n \in 1 .. N : o \in ToSet(parts[n])
    BY <1>7
  <2>2. IsOperandOf(o, kind, b.insns[ids[n]])
    <3> HIDE DEF Part
    <3>1. QED
      BY <1>4, <1>5, <2>1
  <2>3. QED
    BY <1>2, <2>2
<1>9. QED
  BY <1>3, <1>7, <1>8

-----------------------------------------------------------------------------
(* Calls and references to data.                                           *)

Shown(x, insn) == [type |-> x.type, from |-> x.from, to |-> x.to] \in ToSet(InstructionRefs(insn))

(* What one analyser takes for a call is one for the other.                *)
LEMMA CallIsShown ==
    ASSUME NEW insn \in IrInstruction, insn.is = "call",
           NEW k \in DOMAIN Operands(insn, "address")
    PROVE  [type |-> "Call", from |-> insn.address, to |-> Operands(insn, "address")[k].to]
              \in ToSet(InstructionRefs(insn))
<1> DEFINE aimed == IF insn.is \in {"call", "branch"} THEN Operands(insn, "address") ELSE << >>
           all == Operands(insn, "immediate")
           other == {o \in ToSet(all) : \A j \in DOMAIN aimed : aimed[j].to # o.to}
           immediate == Kept(all, other)
           new == {j \in DOMAIN immediate : ~\E i \in 1 .. j - 1 : immediate[i].to = immediate[j].to}
           first == Kept([j \in 1 .. Len(immediate) |-> j], new)
           Ref(t, o) == [type |-> t, from |-> insn.address, to |-> o.to]
           t == IF insn.is = "call" THEN "Call" ELSE "Jump"
           A == [j \in 1 .. Len(aimed) |-> Ref(t, aimed[j])]
           B == [j \in 1 .. Len(first) |-> Ref("DataRead", immediate[first[j]])]
           V == [type : {"Call", "Jump", "DataRead"}, from : Nat, to : Nat]
<1>1. InstructionRefs(insn) = A \o B
  BY Zenon DEF InstructionRefs
<1>2. aimed = Operands(insn, "address") /\ t = "Call"
  OBVIOUS
<1>3. aimed \in Seq(IrOperand) /\ all \in Seq(IrOperand)
  BY <1>2, OperandsAre
<1>4. insn.address \in Nat
  BY DEF IrInstruction
<1> HIDE DEF aimed, all, t
<1>5. immediate \in Seq(IrOperand)
  <2> HIDE DEF other
  <2>1. QED
    BY <1>3, KeptIs
<1> HIDE DEF immediate
<1>6. first \in Seq(1 .. Len(immediate)) /\ Len(immediate) \in Nat
  <2> DEFINE places == [j \in 1 .. Len(immediate) |-> j]
  <2>1. Len(immediate) \in Nat
    BY <1>5, LenProperties
  <2>2. places \in [1 .. Len(immediate) -> 1 .. Len(immediate)]
    OBVIOUS
  <2> HIDE DEF places
  <2>3. places \in Seq(1 .. Len(immediate))
    BY <2>1, <2>2, IsASeq
  <2>4. first = Kept(places, new)
    BY DEF places
  <2> HIDE DEF new, first
  <2>5. QED
    BY <2>1, <2>3, <2>4, KeptIs
<1> HIDE DEF new, first
<1>7. A \in Seq(V) /\ DOMAIN A = 1 .. Len(aimed)
  <2>1. Len(aimed) \in Nat
    BY <1>3, LenProperties
  <2>2. ASSUME NEW j \in 1 .. Len(aimed) PROVE aimed[j].to \in Nat
    <3>1. aimed[j] \in IrOperand
      BY <1>3
    <3>2. QED
      BY <3>1 DEF IrOperand
  <2>3. A \in [1 .. Len(aimed) -> V]
    BY <1>2, <1>4, <2>2
  <2>4. QED
    BY <2>1, <2>3, IsASeq
<1>8. B \in Seq(V)
  <2>1. Len(first) \in Nat
    BY <1>6, LenProperties
  <2>2. ASSUME NEW j \in 1 .. Len(first) PROVE immediate[first[j]].to \in Nat
    <3>1. first[j] \in 1 .. Len(immediate)
      BY <1>6, ElementOfSeq
    <3>2. immediate[first[j]] \in IrOperand
      BY <1>5, <3>1, ElementOfSeq
    <3>3. QED
      BY <3>2 DEF IrOperand
  <2>3. B \in [1 .. Len(first) -> V]
    BY <1>4, <2>2
  <2>4. QED
    BY <2>1, <2>3, IsASeq
<1>9. k \in DOMAIN A /\ A[k] = [type |-> "Call", from |-> insn.address, to |-> aimed[k].to]
  <2>1. DOMAIN aimed = 1 .. Len(aimed)
    BY <1>3, LenProperties
  <2>2. k \in 1 .. Len(aimed)
    BY <1>2, <2>1
  <2>3. QED
    BY <1>2, <2>2
<1> DEFINE call == [type |-> "Call", from |-> insn.address, to |-> aimed[k].to]
<1> HIDE DEF A, B, V
<1>10. call \in ToSet(A)
  BY <1>9 DEF ToSet
<1>11. ToSet(A \o B) = ToSet(A) \cup ToSet(B)
  BY <1>7, <1>8, SetOfConcat
<1>12. call \in ToSet(InstructionRefs(insn))
  BY <1>1, <1>10, <1>11
<1>13. QED
  BY <1>2, <1>12

(* The calls of a function.                                                *)
LEMMA CallsAre ==
    ASSUME NEW b, IsCode(b), NEW f, f.blocks \in Seq(Nat)
    PROVE  /\ CallsOf(b, f) \in Seq(IrXref)
           /\ \A x \in ToSet(CallsOf(b, f)) : \E n \in DOMAIN b.insns : Shown(x, b.insns[n])
<1> DEFINE all == OperandsOf(b, f, "address")
           S == {o \in ToSet(all) : o.is = "call" /\ FindAt(b.functionAt, o.to) # Invalid}
           calls == Kept(all, S)
           Call(o) == [NewXref EXCEPT !.from = o.from, !.to = o.to,
                                      !.target = FindAt(b.functionAt, o.to)]
           list == [k \in 1 .. Len(calls) |-> Call(calls[k])]
<1>1. CallsOf(b, f) = list
  BY Zenon DEF CallsOf
<1>2. /\ all \in Seq(Located)
      /\ \A o \in ToSet(all) : \E n \in DOMAIN b.insns : IsOperandOf(o, "address", b.insns[n])
  BY OperandsOfAre
<1> HIDE DEF all
<1>3. S \subseteq ToSet(all) /\ \A o \in S : o.is = "call"
  OBVIOUS
<1> HIDE DEF S
<1>4. calls \in Seq(Located) /\ ToSet(calls) = ToSet(all) \cap S
  BY <1>2, KeptIs
<1>5. /\ Len(calls) \in Nat /\ DOMAIN calls = 1 .. Len(calls)
      /\ \A k \in 1 .. Len(calls) : calls[k] \in Located /\ calls[k] \in ToSet(calls)
  BY <1>4, LenProperties, ElementOfSeq DEF ToSet
<1> HIDE DEF calls
<1>6. ASSUME NEW o \in Located
      PROVE  /\ Call(o) \in IrXref
             /\ Call(o).type = "Call" /\ Call(o).from = o.from /\ Call(o).to = o.to
  <2>1. FindAt(b.functionAt, o.to) \in Nat
    <3>1. b.functionAt \in [DOMAIN b.functionAt -> DOMAIN b.functions]
      BY CodeIs
    <3>2. DOMAIN b.functions \subseteq Nat
      <4>1. b.functions \in Seq(ToSet(b.functions))
        BY CodeIs
      <4>2. QED
        BY <4>1, LenProperties
    <3>3. QED
      BY <3>1, <3>2 DEF FindAt, Invalid
  <2>2. o.from \in Nat /\ o.to \in Nat
    BY DEF Located
  <2>3. QED
    BY <2>1, <2>2 DEF IrXref, NewXref
<1>7. list \in [1 .. Len(calls) -> IrXref]
  <2> HIDE DEF Call
  <2>1. QED
    BY <1>5, <1>6
<1>8. list \in Seq(IrXref) /\ DOMAIN list = 1 .. Len(calls)
  <2> HIDE DEF list
  <2>1. QED
    BY <1>5, <1>7, IsASeq
<1>9. ASSUME NEW x \in ToSet(list) PROVE \E n \in DOMAIN b.insns : Shown(x, b.insns[n])
  <2>1. PICK k \in 1 .. Len(calls) : x = Call(calls[k])
    BY <1>8, <1>9 DEF ToSet
  <2> DEFINE o == calls[k]
  <2>2. o \in Located /\ o \in ToSet(all) /\ o \in S /\ o.is = "call"
    BY <1>3, <1>4, <1>5
  <2>3. x.type = "Call" /\ x.from = o.from /\ x.to = o.to
    BY <1>6, <2>1, <2>2
  <2> HIDE DEF o, Call, list
  <2>4. PICK n \in DOMAIN b.insns : IsOperandOf(o, "address", b.insns[n])
    BY <1>2, <2>2
  <2>5. b.insns[n] \in IrInstruction
    <3>1. b.insns \in Seq(IrInstruction)
      BY CodeIs
    <3>2. QED
      BY <3>1
  <2>6. PICK j \in DOMAIN Operands(b.insns[n], "address") :
           Operands(b.insns[n], "address")[j].to = o.to
    BY <2>4 DEF IsOperandOf
  <2>7. b.insns[n].is = "call" /\ o.from = b.insns[n].address
    BY <2>2, <2>4 DEF IsOperandOf
  <2> DEFINE insn == b.insns[n]
  <2>8. [type |-> "Call", from |-> insn.address, to |-> Operands(insn, "address")[j].to]
           \in ToSet(InstructionRefs(insn))
    BY <2>5, <2>6, <2>7, CallIsShown
  <2>9. Shown(x, b.insns[n])
    BY <2>3, <2>6, <2>7, <2>8 DEF Shown
  <2>10. QED
    BY <2>9
<1>10. QED
  BY <1>1, <1>8, <1>9

(* References to data, at sections that are not code.                      *)
AtData(b, a) ==
    FindAt(b.sectionAt, a) # Invalid /\ ~b.sections[FindAt(b.sectionAt, a)].executable

LEMMA DataOperandsAre ==
    ASSUME NEW b, IsCode(b)
    PROVE  /\ DataOperands(b) \in Seq(Located)
           /\ \A o \in ToSet(DataOperands(b)) :
                /\ AtData(b, o.to)
                /\ \E n \in DOMAIN b.insns : IsOperandOf(o, "memory", b.insns[n])
<1> DEFINE N == Len(b.functions)
           parts == [id \in 1 .. N |-> OperandsOf(b, b.functions[id], "memory")]
           all == FlattenSeq(parts)
           IsData(s) == s # Invalid /\ ~b.sections[s].executable
           S == {o \in ToSet(all) : IsData(FindAt(b.sectionAt, o.to))}
<1>1. DataOperands(b) = Kept(all, S)
  BY Zenon DEF DataOperands
<1>2. N \in Nat /\ DOMAIN b.functions = 1 .. N
  <2>1. b.functions \in Seq(ToSet(b.functions))
    BY CodeIs
  <2>2. QED
    BY <2>1, LenProperties
<1> HIDE DEF N
<1>3. ASSUME NEW id \in 1 .. N
      PROVE  /\ parts[id] \in Seq(Located)
             /\ \A o \in ToSet(parts[id]) :
                  \E n \in DOMAIN b.insns : IsOperandOf(o, "memory", b.insns[n])
  <2>1. b.functions[id].blocks \in Seq(Nat)
    BY <1>2, FunctionOf
  <2> DEFINE f == b.functions[id]
  <2>2. parts[id] = OperandsOf(b, f, "memory")
    OBVIOUS
  <2> HIDE DEF f, parts
  <2>3. /\ OperandsOf(b, f, "memory") \in Seq(Located)
        /\ \A o \in ToSet(OperandsOf(b, f, "memory")) :
             \E n \in DOMAIN b.insns : IsOperandOf(o, "memory", b.insns[n])
    BY <2>1, OperandsOfAre DEF f
  <2>4. QED
    BY <2>2, <2>3
<1>4. parts \in Seq(Seq(Located)) /\ Len(parts) = N
  <2>1. parts \in [1 .. N -> Seq(Located)]
    <3>1. DOMAIN parts = 1 .. N /\ parts = [id \in 1 .. N |-> parts[id]]
      OBVIOUS
    <3> HIDE DEF parts
    <3>2. QED
      BY <1>3, <3>1
  <2> HIDE DEF parts
  <2>2. QED
    BY <1>2, <2>1, IsASeq, LenProperties
<1> HIDE DEF parts
<1>5. /\ all \in Seq(Located)
      /\ \A x \in ToSet(all) : \E n \in 1 .. N : x \in ToSet(parts[n])
  BY <1>4, FlattenHolds
<1> HIDE DEF all
<1>6. \A o \in S : AtData(b, o.to)
  BY DEF AtData
<1> HIDE DEF S
<1>7. Kept(all, S) \in Seq(Located) /\ ToSet(Kept(all, S)) = ToSet(all) \cap S
  BY <1>5, KeptIs
<1>8. ASSUME NEW o \in ToSet(Kept(all, S))
      PROVE  AtData(b, o.to) /\ \E n \in DOMAIN b.insns : IsOperandOf(o, "memory", b.insns[n])
  <2>1. o \in S /\ o \in ToSet(all)
    BY <1>7
  <2>2. PICK id \in 1 .. N : o \in ToSet(parts[id])
    BY <1>5, <2>1
  <2>3. \E n \in DOMAIN b.insns : IsOperandOf(o, "memory", b.insns[n])
    BY <1>3, <2>2
  <2>4. QED
    BY <1>6, <2>1, <2>3
<1>9. QED
  BY <1>1, <1>7, <1>8

LEMMA DataRefsAre ==
    ASSUME NEW b, IsCode(b)
    PROVE  /\ DataRefs(b) \in Seq(IrXref) /\ Len(DataRefs(b)) = Len(DataOperands(b))
           /\ DOMAIN DataRefs(b) = 1 .. Len(DataOperands(b))
           /\ \A k \in 1 .. Len(DataOperands(b)) :
                LET x == DataRefs(b)[k]
                IN  /\ x.type = "DataRead" /\ x.from = DataOperands(b)[k].from
                    /\ x.to = DataOperands(b)[k].to
<1> DEFINE data == DataOperands(b)
           L == Len(data)
           Ref(o) == [NewXref EXCEPT !.type = "DataRead", !.from = o.from, !.to = o.to,
                                     !.target = FindAt(b.symbolAt, o.to)]
           list == [k \in 1 .. L |-> Ref(data[k])]
<1>1. DataRefs(b) = list
  BY Zenon DEF DataRefs
<1>2. data \in Seq(Located)
  BY DataOperandsAre
<1> HIDE DEF data
<1>3. L \in Nat /\ \A k \in 1 .. L : data[k] \in Located
  BY <1>2, LenProperties, ElementOfSeq
<1> HIDE DEF L
<1>4. ASSUME NEW o \in Located
      PROVE  /\ Ref(o) \in IrXref
             /\ Ref(o).type = "DataRead" /\ Ref(o).from = o.from /\ Ref(o).to = o.to
  <2>1. FindAt(b.symbolAt, o.to) \in Nat
    <3>1. b.symbolAt \in [DOMAIN b.symbolAt -> DOMAIN b.symbols]
      BY CodeIs
    <3>2. DOMAIN b.symbols \subseteq Nat
      <4>1. b.symbols \in Seq(ToSet(b.symbols))
        BY CodeIs
      <4>2. QED
        BY <4>1, LenProperties
    <3>3. QED
      BY <3>1, <3>2 DEF FindAt, Invalid
  <2>2. o.from \in Nat /\ o.to \in Nat
    BY DEF Located
  <2>3. QED
    BY <2>1, <2>2 DEF IrXref, NewXref
<1> HIDE DEF Ref
<1>5. /\ list \in [1 .. L -> IrXref] /\ DOMAIN list = 1 .. L
      /\ \A k \in 1 .. L : list[k] = Ref(data[k])
  BY <1>3, <1>4
<1> HIDE DEF list
<1>6. list \in Seq(IrXref) /\ Len(list) = L
  BY <1>3, <1>5, IsASeq, LenProperties
<1>7. \A k \in 1 .. L : /\ list[k].type = "DataRead" /\ list[k].from = data[k].from
                        /\ list[k].to = data[k].to
  BY <1>3, <1>4, <1>5
<1>8. QED
  BY <1>1, <1>5, <1>6, <1>7 DEF data, L

-----------------------------------------------------------------------------
(* What no analysis changes.                                               *)
SameCode(b, c) ==
    /\ b.insns = c.insns /\ b.blocks = c.blocks /\ b.sections = c.sections
    /\ b.sectionAt = c.sectionAt /\ b.functionAt = c.functionAt
    /\ DOMAIN b.functions = DOMAIN c.functions /\ Len(b.functions) = Len(c.functions)
    /\ \A id \in DOMAIN c.functions : b.functions[id].blocks = c.functions[id].blocks

LEMMA SameOperands ==
    ASSUME NEW b, NEW c, SameCode(b, c), NEW id \in DOMAIN c.functions, NEW kind
    PROVE  OperandsOf(b, b.functions[id], kind) = OperandsOf(c, c.functions[id], kind)
<1>1. /\ b.insns = c.insns /\ b.blocks = c.blocks
      /\ b.functions[id].blocks = c.functions[id].blocks
  BY DEF SameCode
<1>2. InsnIds(b, b.functions[id]) = InsnIds(c, c.functions[id])
  BY <1>1, Zenon DEF InsnIds
<1>3. QED
  BY <1>1, <1>2, Zenon DEF OperandsOf

LEMMA SameCalls ==
    ASSUME NEW b, NEW c, SameCode(b, c), NEW id \in DOMAIN c.functions
    PROVE  CallsOf(b, b.functions[id]) = CallsOf(c, c.functions[id])
<1>1. b.functionAt = c.functionAt
  BY DEF SameCode
<1>2. OperandsOf(b, b.functions[id], "address") = OperandsOf(c, c.functions[id], "address")
  BY SameOperands
<1>3. QED
  BY <1>1, <1>2, Zenon DEF CallsOf

LEMMA SameData ==
    ASSUME NEW b, NEW c, SameCode(b, c), IsCode(c)
    PROVE  DataOperands(b) = DataOperands(c)
<1>1. /\ Len(b.functions) = Len(c.functions) /\ DOMAIN c.functions = 1 .. Len(c.functions)
      /\ b.sections = c.sections /\ b.sectionAt = c.sectionAt
  <2>1. c.functions \in Seq(ToSet(c.functions))
    BY CodeIs
  <2>2. QED
    BY <2>1, LenProperties DEF SameCode
<1>2. [id \in 1 .. Len(b.functions) |-> OperandsOf(b, b.functions[id], "memory")] =
      [id \in 1 .. Len(c.functions) |-> OperandsOf(c, c.functions[id], "memory")]
  <2>1. ASSUME NEW id \in DOMAIN c.functions
        PROVE  OperandsOf(b, b.functions[id], "memory") = OperandsOf(c, c.functions[id], "memory")
    BY SameOperands
  <2>2. QED
    BY <1>1, <2>1
<1>3. QED
  BY <1>1, <1>2, Zenon DEF DataOperands

LEMMA SameStrings ==
    ASSUME NEW p, NEW q, p.file = q.file, p.binary.sections = q.binary.sections
    PROVE  FindStrings(p) = FindStrings(q)
BY Zenon DEF FindStrings

-----------------------------------------------------------------------------
(* Callers.  The analyses since the last one of a function.                *)
Since(id, log) ==
    SubSeq(log, Max({n \in DOMAIN log : log[n] = id} \cup {1}), Len(log))

LEMMA SinceIs ==
    ASSUME NEW V, NEW log \in Seq(V), NEW id
    PROVE  /\ Since(id, log) \in Seq(V)
           /\ ToSet(Since(id, log)) \subseteq ToSet(log)
<1> DEFINE N == Len(log)
           T == {n \in DOMAIN log : log[n] = id} \cup {1}
           m == Max(T)
<1>1. N \in Nat /\ DOMAIN log = 1 .. N /\ \A n \in 1 .. N : log[n] \in V
  BY LenProperties, ElementOfSeq
<1>2. T \in SUBSET (1 .. N + 1) /\ T # {} /\ N + 1 \in Nat
  BY <1>1
<1>3. Since(id, log) = SubSeq(log, m, N)
  BY DEF Since
<1> HIDE DEF N, T
<1>4. m \in 1 .. N + 1
  BY <1>2, MaxIsGreatest
<1> HIDE DEF m
<1>5. m \in Int /\ N \in Int /\ \A i \in m .. N : i \in 1 .. N /\ log[i] \in ToSet(log)
  BY <1>1, <1>4 DEF ToSet
<1> DEFINE s == SubSeq(log, m, N)
<1>6. /\ s \in Seq(ToSet(log)) /\ Len(s) = IF m <= N THEN N - m + 1 ELSE 0
      /\ \A i \in 1 .. N - m + 1 : s[i] = log[m + i - 1]
  BY <1>5, SubSeqProperties
<1>7. s \in Seq(V)
  <2>1. \A i \in m .. N : log[i] \in V
    BY <1>1, <1>5
  <2>2. QED
    BY <1>5, <2>1, SubSeqProperties
<1> HIDE DEF s
<1>8. \A n \in DOMAIN s : s[n] \in ToSet(log)
  BY <1>6, ElementOfSeq, LenProperties
<1>9. ToSet(s) \subseteq ToSet(log)
  BY <1>8 DEF ToSet
<1>10. QED
  BY <1>3, <1>7, <1>9 DEF s

LEMMA SinceGrows ==
    ASSUME NEW V, NEW log \in Seq(V), NEW id, NEW f \in V
    PROVE  /\ f = id => Since(id, Append(log, f)) = << f >>
           /\ f # id => Since(id, Append(log, f)) = Append(Since(id, log), f)
<1> DEFINE N == Len(log)
           more == Append(log, f)
           PlacesOf(l) == {n \in DOMAIN l : l[n] = id} \cup {1}
<1>1. /\ N \in Nat /\ DOMAIN log = 1 .. N /\ \A n \in 1 .. N : log[n] \in V
      /\ more \in Seq(V) /\ Len(more) = N + 1 /\ DOMAIN more = 1 .. N + 1
      /\ more[N + 1] = f /\ \A n \in 1 .. N : more[n] = log[n]
  BY OneLonger, ElementOfSeq
<1>2. /\ Since(id, log) = SubSeq(log, Max(PlacesOf(log)), N)
      /\ Since(id, more) = SubSeq(more, Max(PlacesOf(more)), N + 1)
  BY <1>1 DEF Since
<1> HIDE DEF more, N
<1>3. /\ PlacesOf(log) \in SUBSET (1 .. N + 1) /\ PlacesOf(log) # {}
      /\ PlacesOf(more) \in SUBSET (1 .. N + 1) /\ PlacesOf(more) # {}
      /\ PlacesOf(more) = PlacesOf(log) \cup {n \in {N + 1} : f = id}
  BY <1>1
<1>4. N + 1 \in Nat
  BY <1>1
<1> HIDE DEF Last
<1>5. ASSUME f = id PROVE Since(id, more) = << f >>
  <2>1. N + 1 \in PlacesOf(more)
    BY <1>3, <1>5
  <2>2. Max(PlacesOf(more)) \in 1 .. N + 1 /\ N + 1 <= Max(PlacesOf(more))
    BY <1>3, <1>4, <2>1, MaxIsGreatest
  <2>3. Max(PlacesOf(more)) = N + 1
    BY <1>1, <2>2
  <2> DEFINE k == N + 1
             s == SubSeq(more, k, k)
  <2>4. k \in Int /\ more[k] = f /\ \A i \in k .. k : more[i] \in V
    BY <1>1
  <2> HIDE DEF k
  <2>5. /\ s \in Seq(V) /\ Len(s) = (IF k <= k THEN k - k + 1 ELSE 0)
        /\ \A i \in 1 .. k - k + 1 : s[i] = more[k + i - 1]
    BY <2>4, SubSeqProperties
  <2> HIDE DEF s
  <2>6. s \in Seq(V) /\ Len(s) = 1 /\ s[1] = f
    BY <2>4, <2>5
  <2>7. << f >> \in Seq(V) /\ Len(<< f >>) = 1 /\ << f >>[1] = f
    OBVIOUS
  <2>8. \A i \in 1 .. Len(s) : s[i] = << f >>[i]
    BY <2>6
  <2>9. s = << f >>
    BY <2>6, <2>7, <2>8, SeqEqual
  <2>10. QED
    BY <1>2, <2>3, <2>9 DEF s, k
<1>6. ASSUME f # id PROVE Since(id, more) = Append(Since(id, log), f)
  <2> DEFINE m == Max(PlacesOf(log))
             s == SubSeq(log, m, N)
             t == SubSeq(more, m, N + 1)
  <2>1. PlacesOf(more) = PlacesOf(log)
    BY <1>3, <1>6
  <2>2. m \in 1 .. N + 1
    BY <1>3, <1>4, MaxIsGreatest
  <2>3. Since(id, log) = s /\ Since(id, more) = t
    BY <1>2, <2>1
  <2> HIDE DEF m
  <2>4. \A i \in m .. N : log[i] \in V
    BY <1>1, <2>2
  <2>5. \A i \in m .. N + 1 : more[i] \in V
    BY <1>1, <2>2
  <2>6. /\ s \in Seq(V) /\ Len(s) = N - m + 1
        /\ \A i \in 1 .. N - m + 1 : s[i] = log[m + i - 1]
    <3>1. /\ s \in Seq(V) /\ Len(s) = IF m <= N THEN N - m + 1 ELSE 0
          /\ \A i \in 1 .. N - m + 1 : s[i] = log[m + i - 1]
      BY <1>1, <2>2, <2>4, SubSeqProperties
    <3> HIDE DEF s
    <3>2. QED
      BY <1>1, <2>2, <3>1
  <2>7. /\ t \in Seq(V) /\ Len(t) = N - m + 2
        /\ \A i \in 1 .. N - m + 2 : t[i] = more[m + i - 1]
    <3>1. /\ t \in Seq(V) /\ Len(t) = IF m <= N + 1 THEN (N + 1) - m + 1 ELSE 0
          /\ \A i \in 1 .. (N + 1) - m + 1 : t[i] = more[m + i - 1]
      BY <1>1, <1>4, <2>2, <2>5, SubSeqProperties
    <3> HIDE DEF t
    <3>2. QED
      BY <1>1, <2>2, <3>1
  <2> HIDE DEF s, t
  <2> DEFINE u == Append(s, f)
  <2>8. /\ u \in Seq(V) /\ Len(u) = Len(s) + 1 /\ u[Len(s) + 1] = f
        /\ \A i \in 1 .. Len(s) : u[i] = s[i]
    BY <2>6, OneLonger
  <2> HIDE DEF u
  <2>9. ASSUME NEW i \in 1 .. Len(t) PROVE t[i] = u[i]
    <3>1. CASE i <= Len(s)
      <4>1. i \in 1 .. Len(s) /\ m + i - 1 \in 1 .. N
        BY <1>1, <2>2, <2>6, <2>7, <3>1
      <4>2. QED
        BY <1>1, <2>6, <2>7, <2>8, <4>1
    <3>2. CASE ~(i <= Len(s))
      <4>1. i = Len(s) + 1 /\ m + i - 1 = N + 1
        BY <1>1, <2>2, <2>6, <2>7, <3>2
      <4>2. QED
        BY <1>1, <2>7, <2>8, <4>1
    <3>3. QED
      BY <3>1, <3>2
  <2>10. Len(t) = Len(u)
    BY <1>1, <2>2, <2>6, <2>7, <2>8
  <2>11. t = u
    BY <2>7, <2>8, <2>9, <2>10, SeqEqual
  <2>12. QED
    BY <2>3, <2>11 DEF u
<1>7. QED
  BY <1>5, <1>6 DEF more

(* The calls to a function that are in its list: analyze_function empties  *)
(* it, so that they are those of the functions analysed since.             *)
CallsFrom(b, caller, id) == CallsTo(CallsOf(b, b.functions[caller]), id)

Incoming(b, log, id) ==
    FlattenSeq([n \in 1 .. Len(Since(id, log)) |-> CallsFrom(b, Since(id, log)[n], id)])

LEMMA CallsFromAre ==
    ASSUME NEW b, IsCode(b), NEW caller \in DOMAIN b.functions, NEW id
    PROVE  /\ CallsOf(b, b.functions[caller]) \in Seq(IrXref)
           /\ CallsFrom(b, caller, id) \in Seq(IrXref)
<1> DEFINE calls == CallsOf(b, b.functions[caller])
<1>1. b.functions[caller].blocks \in Seq(Nat)
  BY FunctionOf
<1>2. calls \in Seq(IrXref)
  BY <1>1, CallsAre
<1> HIDE DEF calls
<1>3. CallsTo(calls, id) \in Seq(IrXref)
  BY <1>2, KeptIs DEF CallsTo
<1>4. QED
  BY <1>2, <1>3 DEF CallsFrom, calls

LEMMA IncomingIs ==
    ASSUME NEW b, IsCode(b), NEW log \in Seq(DOMAIN b.functions), NEW id
    PROVE  /\ [n \in 1 .. Len(Since(id, log)) |-> CallsFrom(b, Since(id, log)[n], id)]
                 \in Seq(Seq(IrXref))
           /\ Incoming(b, log, id) \in Seq(IrXref)
           /\ \A x \in ToSet(Incoming(b, log, id)) :
                \E caller \in ToSet(log) : x \in ToSet(CallsFrom(b, caller, id))
           /\ \A caller \in ToSet(Since(id, log)) :
                ToSet(CallsFrom(b, caller, id)) \subseteq ToSet(Incoming(b, log, id))
<1> DEFINE s == Since(id, log)
           lists == [n \in 1 .. Len(s) |-> CallsFrom(b, s[n], id)]
<1>1. s \in Seq(DOMAIN b.functions) /\ ToSet(s) \subseteq ToSet(log)
  BY SinceIs
<1>2. Incoming(b, log, id) = FlattenSeq(lists)
  BY DEF Incoming
<1> HIDE DEF s
<1>3. /\ Len(s) \in Nat /\ DOMAIN s = 1 .. Len(s)
      /\ \A n \in 1 .. Len(s) : s[n] \in DOMAIN b.functions /\ s[n] \in ToSet(log)
  <2>1. /\ Len(s) \in Nat /\ DOMAIN s = 1 .. Len(s)
        /\ \A n \in 1 .. Len(s) : s[n] \in DOMAIN b.functions
    BY <1>1, LenProperties, ElementOfSeq
  <2>2. \A n \in 1 .. Len(s) : s[n] \in ToSet(s)
    BY <2>1 DEF ToSet
  <2>3. QED
    BY <1>1, <2>1, <2>2
<1>4. lists \in [1 .. Len(s) -> Seq(IrXref)] /\ \A n \in 1 .. Len(s) : lists[n] = CallsFrom(b, s[n], id)
  BY <1>3, CallsFromAre
<1> HIDE DEF lists
<1>5. lists \in Seq(Seq(IrXref)) /\ Len(lists) = Len(s)
  BY <1>3, <1>4, IsASeq, LenProperties
<1>6. /\ FlattenSeq(lists) \in Seq(IrXref)
      /\ \A x \in ToSet(FlattenSeq(lists)) : \E n \in 1 .. Len(s) : x \in ToSet(lists[n])
  BY <1>5, FlattenHolds
<1>7. \A x \in ToSet(FlattenSeq(lists)) :
         \E caller \in ToSet(log) : x \in ToSet(CallsFrom(b, caller, id))
  BY <1>3, <1>4, <1>6
<1>8. ASSUME NEW caller \in ToSet(s)
      PROVE  ToSet(CallsFrom(b, caller, id)) \subseteq ToSet(FlattenSeq(lists))
  <2>1. PICK n \in 1 .. Len(s) : caller = s[n]
    BY <1>3 DEF ToSet
  <2>2. ToSet(lists[n]) \subseteq ToSet(FlattenSeq(lists))
    BY <1>5, FlattenHolds
  <2>3. QED
    BY <1>4, <2>1, <2>2
<1>9. QED
  BY <1>2, <1>5, <1>6, <1>7, <1>8 DEF lists, s

(* One more analysis, of a function that has the code it had.              *)
LEMMA IncomingGrows ==
    ASSUME NEW b, IsCode(b), NEW c, SameCode(c, b), NEW log \in Seq(DOMAIN b.functions),
           NEW id, NEW f \in DOMAIN b.functions
    PROVE  /\ f = id => Incoming(c, Append(log, f), id) = CallsFrom(b, f, id)
           /\ f # id => Incoming(c, Append(log, f), id) =
                           Incoming(b, log, id) \o CallsFrom(b, f, id)
<1> DEFINE Lists2(d, s) == [n \in 1 .. Len(s) |-> CallsFrom(d, s[n], id)]
           more == Append(log, f)
<1>1. Incoming(c, more, id) = FlattenSeq(Lists2(c, Since(id, more)))
  BY DEF Incoming
<1>2. Incoming(b, log, id) = FlattenSeq(Lists2(b, Since(id, log)))
  BY DEF Incoming
<1>3. more \in Seq(DOMAIN b.functions)
  BY OneLonger
<1>4. ASSUME NEW s \in Seq(DOMAIN b.functions) PROVE Lists2(c, s) = Lists2(b, s)
  <2>1. ASSUME NEW n \in 1 .. Len(s) PROVE CallsFrom(c, s[n], id) = CallsFrom(b, s[n], id)
    <3>1. s[n] \in DOMAIN b.functions
      BY ElementOfSeq
    <3>2. CallsOf(c, c.functions[s[n]]) = CallsOf(b, b.functions[s[n]])
      BY <3>1, SameCalls
    <3>3. QED
      BY <3>2 DEF CallsFrom
  <2>2. QED
    BY <2>1
<1>5. Since(id, more) \in Seq(DOMAIN b.functions) /\ Since(id, log) \in Seq(DOMAIN b.functions)
  BY <1>3, SinceIs
<1>6. Lists2(c, Since(id, more)) = Lists2(b, Since(id, more))
  BY <1>4, <1>5
<1>7. CallsFrom(b, f, id) \in Seq(IrXref)
  BY CallsFromAre
<1>8. ASSUME f = id PROVE Incoming(c, more, id) = CallsFrom(b, f, id)
  <2>1. Since(id, more) = << f >>
    BY <1>8, SinceGrows
  <2>2. Lists2(b, << f >>) = Append(<< >>, CallsFrom(b, f, id))
    <3>1. Len(<< f >>) = 1 /\ << f >>[1] = f
      OBVIOUS
    <3>2. Lists2(b, << f >>) = [n \in 1 .. 1 |-> CallsFrom(b, f, id)]
      BY <3>1
    <3>3. QED
      BY <3>2
  <2>3. FlattenSeq(Append(<< >>, CallsFrom(b, f, id))) = FlattenSeq(<< >>) \o CallsFrom(b, f, id)
    <3>1. << >> \in Seq(Seq(IrXref))
      BY EmptySeq
    <3>2. QED
      BY <1>7, <3>1, FlattenMore
  <2>4. << >> \o CallsFrom(b, f, id) = CallsFrom(b, f, id)
    BY <1>7, ConcatEmptySeq
  <2> HIDE DEF Lists2, more
  <2>5. QED
    BY <1>1, <1>6, <2>1, <2>2, <2>3, <2>4, FlattenNone
<1>9. ASSUME f # id PROVE Incoming(c, more, id) = Incoming(b, log, id) \o CallsFrom(b, f, id)
  <2> DEFINE s == Since(id, log)
             lists == Lists2(b, s)
  <2>1. Since(id, more) = Append(s, f)
    BY <1>9, SinceGrows
  <2>2. s \in Seq(DOMAIN b.functions) /\ lists \in Seq(Seq(IrXref))
    BY <1>5, IncomingIs
  <2>3. Incoming(b, log, id) = FlattenSeq(lists)
    BY <1>2
  <2> DEFINE t == Append(s, f)
             u == Append(lists, CallsFrom(b, f, id))
  <2>4. /\ Len(s) \in Nat /\ Len(t) = Len(s) + 1 /\ t[Len(s) + 1] = f
        /\ \A n \in 1 .. Len(s) : t[n] = s[n]
    BY <2>2, OneLonger
  <2>5. /\ DOMAIN lists = 1 .. Len(s) /\ \A n \in 1 .. Len(s) : lists[n] = CallsFrom(b, s[n], id)
    OBVIOUS
  <2>6. Len(lists) = Len(s)
    BY <2>2, <2>4, <2>5, LenProperties
  <2> HIDE DEF s, lists
  <2>7. /\ DOMAIN u = 1 .. Len(s) + 1 /\ u[Len(s) + 1] = CallsFrom(b, f, id)
        /\ \A n \in 1 .. Len(s) : u[n] = lists[n]
        /\ u \in Seq(Seq(IrXref)) /\ Len(u) = Len(s) + 1
    BY <1>7, <2>2, <2>6, OneLonger
  <2> HIDE DEF t, u
  <2>8. Lists2(b, t) = u
    <3>1. ASSUME NEW n \in 1 .. Len(s) + 1 PROVE CallsFrom(b, t[n], id) = u[n]
      <4>1. CASE n = Len(s) + 1
        BY <2>4, <2>7, <4>1
      <4>2. CASE n # Len(s) + 1
        <5>1. n \in 1 .. Len(s)
          BY <2>4, <4>2
        <5>2. QED
          BY <2>4, <2>5, <2>7, <5>1
      <4>3. QED
        BY <4>1, <4>2
    <3>2. u = [n \in 1 .. Len(s) + 1 |-> u[n]]
      <4>1. u \in [1 .. Len(u) -> Seq(IrXref)]
        BY <2>7
      <4>2. QED
        BY <2>7, <4>1
    <3>3. QED
      BY <2>4, <3>1, <3>2
  <2>9. FlattenSeq(u) = FlattenSeq(lists) \o CallsFrom(b, f, id)
    BY <1>7, <2>2, FlattenMore DEF u
  <2> HIDE DEF Lists2, more
  <2>10. QED
    BY <1>1, <1>6, <2>1, <2>3, <2>8, <2>9 DEF t
<1>10. QED
  BY <1>8, <1>9 DEF more

-----------------------------------------------------------------------------
(* Strings.                                                                *)
Byte == {"text", "zero", "other"}

LEMMA InOrderIs ==
    ASSUME NEW bytes \in Seq(Byte), NEW places
    PROVE  /\ InOrder(bytes, places) \in Seq(Nat)
           /\ \A i \in 1 .. Len(bytes) : i - 1 \in places => i - 1 \in ToSet(InOrder(bytes, places))
<1> DEFINE L == Len(bytes)
           all == [i \in 1 .. L |-> i - 1]
<1>1. L \in Nat
  BY LenProperties
<1> HIDE DEF L
<1>2. all \in [1 .. L -> Nat]
  BY <1>1
<1>3. \A i \in 1 .. L : i - 1 = all[i]
  OBVIOUS
<1>4. InOrder(bytes, places) = Kept(all, places)
  BY DEF InOrder, L
<1> HIDE DEF all
<1>5. all \in Seq(Nat) /\ DOMAIN all = 1 .. L
  BY <1>1, <1>2, IsASeq
<1>6. Kept(all, places) \in Seq(Nat) /\ ToSet(Kept(all, places)) = ToSet(all) \cap places
  BY <1>5, KeptIs
<1>7. \A i \in 1 .. L : i - 1 \in ToSet(all)
  BY <1>3, <1>5 DEF ToSet
<1>8. QED
  BY <1>4, <1>6, <1>7 DEF L

(* Enough printable bytes behind one that is not.                          *)
Begins(bytes, i) ==
    /\ i \in 1 .. Len(bytes) - MinLength + 1
    /\ \A j \in i .. i + MinLength - 1 : bytes[j] = "text"
    /\ i = 1 \/ bytes[i - 1] # "text"

LEMMA AsciiHas ==
    ASSUME NEW bytes \in Seq(Byte), NEW i, Begins(bytes, i)
    PROVE  i - 1 \in Ascii(bytes)
<1> DEFINE L == Len(bytes)
           E == {k \in i .. L : \A j \in i .. k : bytes[j] = "text"}
           e == Max(E)
           first == i + MinLength - 1
<1>1. L \in Nat /\ MinLength \in Nat \ {0}
  BY LenProperties, ProgramsAssumption
<1> HIDE DEF L
<1>2. i \in 1 .. L - MinLength + 1 /\ first \in i .. L /\ i - 1 \in 0 .. L
  BY <1>1 DEF Begins, L
<1>3. first \in E
  BY <1>2 DEF Begins
<1>4. E \in SUBSET (1 .. L)
  BY <1>2
<1> HIDE DEF E
<1>5. e \in E /\ \A k \in E : k <= e
  BY <1>1, <1>3, <1>4, MaxIsGreatest
<1> HIDE DEF e
<1>6. e \in i .. L /\ first <= e /\ \A j \in i .. e : bytes[j] = "text"
  BY <1>3, <1>5 DEF E
<1>7. ASSUME e # L PROVE bytes[e + 1] # "text"
  <2>1. e + 1 \in i .. L
    BY <1>1, <1>2, <1>6, <1>7
  <2>2. e + 1 \notin E
    BY <1>2, <1>5, <1>6
  <2>3. PICK j \in i .. e + 1 : bytes[j] # "text"
    BY <2>1, <2>2 DEF E
  <2>4. j = e + 1
    BY <1>2, <1>6, <2>3
  <2>5. QED
    BY <2>3, <2>4
<1> DEFINE r == <<i - 1, e>>
<1>8. r \in (0 .. L) \X (0 .. L) /\ r[1] = i - 1 /\ r[2] = e
  BY <1>1, <1>2, <1>6
<1>9. /\ r[2] - r[1] >= MinLength
      /\ \A k \in r[1] + 1 .. r[2] : bytes[k] = "text"
      /\ r[1] = 0 \/ bytes[r[1]] # "text"
      /\ r[2] = L \/ bytes[r[2] + 1] # "text"
  <2>1. e - (i - 1) >= MinLength /\ (i - 1) + 1 = i
    BY <1>1, <1>2, <1>6
  <2>2. i - 1 = 0 \/ bytes[i - 1] # "text"
    BY <1>2 DEF Begins
  <2> HIDE DEF r
  <2>3. QED
    BY <1>6, <1>7, <1>8, <2>1, <2>2
<1> DEFINE runs == {x \in (0 .. L) \X (0 .. L) :
        /\ x[2] - x[1] >= MinLength
        /\ \A k \in x[1] + 1 .. x[2] : bytes[k] = "text"
        /\ x[1] = 0 \/ bytes[x[1]] # "text"
        /\ x[2] = L \/ bytes[x[2] + 1] # "text"}
<1>10. r \in runs
  <2> HIDE DEF r
  <2>1. QED
    BY <1>8, <1>9
<1>11. Ascii(bytes) = {x[1] : x \in runs}
  BY Zenon DEF Ascii, L
<1> HIDE DEF runs, r
<1>12. r[1] \in {x[1] : x \in runs}
  BY <1>10
<1>13. QED
  BY <1>8, <1>11, <1>12

InFile(p, s) == ~s.executable /\ s.fileOffset + s.rawSize <= Len(p.file)

(* Whatever is found is an address, and where a string begins one is.      *)
LEMMA FoundAre ==
    ASSUME NEW p, IsCode(p.binary), p.file \in Seq(Byte)
    PROVE  /\ FindStrings(p) \in Seq(Nat)
           /\ \A k \in DOMAIN p.binary.sections :
                LET s == p.binary.sections[k]
                IN  InFile(p, s) => /\ Bytes(p.file, s) \in Seq(Byte)
                                    /\ Len(Bytes(p.file, s)) = s.rawSize
                                    /\ \A i : Begins(Bytes(p.file, s), i) =>
                                          s.virtualAddr + (i - 1) \in ToSet(FindStrings(p))
<1> DEFINE N == Len(p.binary.sections)
           Section(k) == p.binary.sections[k]
           Read(k) == Bytes(p.file, Section(k))
           Found(k) == InOrder(Read(k), Ascii(Read(k))) \o InOrder(Read(k), Unicode(Read(k)))
           Part(k) == IF Section(k).executable \/ Section(k).fileOffset + Section(k).rawSize > Len(p.file)
                      THEN << >>
                      ELSE [n \in 1 .. Len(Found(k)) |-> Section(k).virtualAddr + Found(k)[n]]
           parts == [k \in 1 .. N |-> Part(k)]
<1>1. FindStrings(p) = FlattenSeq(parts)
  BY Zenon DEF FindStrings
<1>2. N \in Nat /\ DOMAIN p.binary.sections = 1 .. N /\ Len(p.file) \in Nat
  <2>1. p.binary.sections \in Seq(IrSection)
    BY CodeIs
  <2>2. QED
    BY <2>1, LenProperties
<1> HIDE DEF N
<1>3. ASSUME NEW k \in 1 .. N
      PROVE  /\ Section(k).fileOffset \in Nat /\ Section(k).rawSize \in Nat
             /\ Section(k).virtualAddr \in Nat
  <2>1. p.binary.sections \in Seq(IrSection)
    BY CodeIs
  <2>2. p.binary.sections[k] \in IrSection
    BY <1>2, <2>1
  <2>3. QED
    BY <2>2 DEF IrSection
<1>4. ASSUME NEW k \in 1 .. N, InFile(p, Section(k))
      PROVE  /\ Read(k) \in Seq(Byte) /\ Len(Read(k)) = Section(k).rawSize
             /\ Part(k) \in Seq(Nat)
             /\ \A i : Begins(Read(k), i) => Section(k).virtualAddr + (i - 1) \in ToSet(Part(k))
  <2> DEFINE s == Section(k)
             from == s.fileOffset + 1
             to == s.fileOffset + s.rawSize
             bytes == Read(k)
             ascii == InOrder(bytes, Ascii(bytes))
             unicode == InOrder(bytes, Unicode(bytes))
             found == ascii \o unicode
             part2 == [n \in 1 .. Len(found) |-> s.virtualAddr + found[n]]
  <2>1. s.fileOffset \in Nat /\ s.rawSize \in Nat /\ s.virtualAddr \in Nat
    BY <1>3
  <2>2. to <= Len(p.file) /\ ~s.executable
    BY <1>4 DEF InFile
  <2>3. bytes = SubSeq(p.file, from, to)
    BY DEF Bytes
  <2>4. ~(s.fileOffset + s.rawSize > Len(p.file))
    BY <1>2, <2>1, <2>2
  <2>5. Part(k) = part2
    BY <2>2, <2>4, Zenon
  <2> HIDE DEF s, Part
  <2>6. from \in Int /\ to \in Int /\ to - from + 1 = s.rawSize /\ (from <= to \/ s.rawSize = 0)
    BY <2>1
  <2>7. \A n \in from .. to : p.file[n] \in Byte
    BY <1>2, <2>1, <2>2
  <2> HIDE DEF bytes, from, to
  <2>8. bytes \in Seq(Byte) /\ Len(bytes) = s.rawSize
    <3> DEFINE sub == SubSeq(p.file, from, to)
    <3>1. sub \in Seq(Byte) /\ Len(sub) = IF from <= to THEN to - from + 1 ELSE 0
      BY <2>6, <2>7, SubSeqProperties
    <3> HIDE DEF sub
    <3>2. QED
      BY <2>1, <2>3, <2>6, <3>1 DEF sub
  <2>9. /\ ascii \in Seq(Nat) /\ unicode \in Seq(Nat)
        /\ \A i \in 1 .. Len(bytes) : i - 1 \in Ascii(bytes) => i - 1 \in ToSet(ascii)
    BY <2>8, InOrderIs
  <2> HIDE DEF ascii, unicode
  <2>10. found \in Seq(Nat) /\ ToSet(found) = ToSet(ascii) \cup ToSet(unicode)
    BY <2>9, SetOfConcat
  <2> HIDE DEF found
  <2>11. /\ Len(found) \in Nat /\ DOMAIN found = 1 .. Len(found)
         /\ \A n \in 1 .. Len(found) : found[n] \in Nat
    BY <2>10, LenProperties, ElementOfSeq
  <2>12. /\ part2 \in [1 .. Len(found) -> Nat] /\ DOMAIN part2 = 1 .. Len(found)
         /\ \A n \in 1 .. Len(found) : part2[n] = s.virtualAddr + found[n]
    BY <2>1, <2>11
  <2> HIDE DEF part2
  <2>13. part2 \in Seq(Nat)
    BY <2>11, <2>12, IsASeq
  <2>14. ASSUME NEW i, Begins(bytes, i) PROVE s.virtualAddr + (i - 1) \in ToSet(part2)
    <3>1. i - 1 \in Ascii(bytes)
      BY <2>8, <2>14, AsciiHas
    <3>2. i \in 1 .. Len(bytes)
      BY <2>1, <2>8, <2>14, ProgramsAssumption DEF Begins
    <3>3. i - 1 \in ToSet(found)
      BY <2>9, <2>10, <3>1, <3>2
    <3>4. PICK n \in 1 .. Len(found) : found[n] = i - 1
      BY <2>11, <3>3 DEF ToSet
    <3>5. part2[n] = s.virtualAddr + (i - 1)
      BY <2>12, <3>4
    <3>6. QED
      BY <2>12, <3>5 DEF ToSet
  <2>15. QED
    BY <2>5, <2>8, <2>13, <2>14 DEF bytes, s
<1>5. ASSUME NEW k \in 1 .. N PROVE Part(k) \in Seq(Nat)
  <2>1. CASE InFile(p, Section(k))
    <3> HIDE DEF Part
    <3>1. QED
      BY <1>4, <2>1
  <2>2. CASE ~InFile(p, Section(k))
    <3>1. Section(k).executable \/ Section(k).fileOffset + Section(k).rawSize > Len(p.file)
      BY <1>2, <1>3, <2>2 DEF InFile
    <3>2. Part(k) = << >>
      BY <3>1, Zenon
    <3>3. QED
      BY <3>2, EmptySeq
  <2>3. QED
    BY <2>1, <2>2
<1>6. parts \in [1 .. N -> Seq(Nat)] /\ \A k \in 1 .. N : parts[k] = Part(k)
  <2> HIDE DEF Part
  <2>1. QED
    BY <1>5
<1> HIDE DEF parts
<1>7. parts \in Seq(Seq(Nat)) /\ Len(parts) = N
  BY <1>2, <1>6, IsASeq, LenProperties
<1>8. /\ FlattenSeq(parts) \in Seq(Nat)
      /\ \A k \in 1 .. N : ToSet(parts[k]) \subseteq ToSet(FlattenSeq(parts))
  BY <1>7, FlattenHolds
<1>9. ASSUME NEW k \in 1 .. N, InFile(p, Section(k)), NEW i, Begins(Read(k), i)
      PROVE  Section(k).virtualAddr + (i - 1) \in ToSet(FlattenSeq(parts))
  <2> HIDE DEF Part, Section, Read
  <2>1. Section(k).virtualAddr + (i - 1) \in ToSet(Part(k))
    BY <1>4, <1>9
  <2>2. QED
    BY <1>6, <1>8, <2>1
<1>10. QED
  <2> HIDE DEF Part, Section, Read
  <2>1. ASSUME NEW k \in 1 .. N, InFile(p, Section(k))
        PROVE  /\ Read(k) \in Seq(Byte) /\ Len(Read(k)) = Section(k).rawSize
               /\ \A i : Begins(Read(k), i) =>
                     Section(k).virtualAddr + (i - 1) \in ToSet(FindStrings(p))
    BY <1>1, <1>4, <1>9, <2>1
  <2>2. QED
    BY <1>1, <1>2, <1>8, <2>1 DEF Section, Read

-----------------------------------------------------------------------------
(* What registering strings leaves as it is.                               *)
SameButStrings(b, c) ==
    /\ b.insns = c.insns /\ b.blocks = c.blocks /\ b.sections = c.sections
    /\ b.sectionAt = c.sectionAt /\ b.functionAt = c.functionAt /\ b.functions = c.functions
    /\ b.xrefsTo = c.xrefsTo /\ b.xrefsFrom = c.xrefsFrom

Named(b, a) == FindAt(b.symbolAt, a) # Invalid

(* A symbol more, and its address is found.                                *)
LEMMA AddStringIs ==
    ASSUME NEW b, IsCode(b), NEW a \in Nat
    PROVE  /\ IsCode(AddString(b, a)) /\ SameButStrings(AddString(b, a), b)
           /\ Named(AddString(b, a), a)
           /\ \A x : Named(b, x) => Named(AddString(b, a), x)
           /\ Named(b, a) => AddString(b, a) = b
<1>1. CASE Named(b, a)
  <2>1. AddString(b, a) = b
    BY <1>1 DEF Named, AddString
  <2>2. SameButStrings(b, b)
    BY DEF SameButStrings
  <2>3. QED
    BY <1>1, <2>1, <2>2
<1>2. CASE ~Named(b, a)
  <2> DEFINE s == StringSymbol(a)
             c == AddString(b, a)
             N == Len(b.symbols)
  <2>1. /\ b.symbols \in Seq(ToSet(b.symbols))
        /\ b.symbolAt \in [DOMAIN b.symbolAt -> DOMAIN b.symbols]
        /\ DOMAIN b = DOMAIN EmptyBinary(0)
    BY CodeIs
  <2>2. s.address = a /\ s.name = << "str_", a >>
    BY DEF StringSymbol, NewSymbol
  <2>3. c = CreateSymbol(b, s)
    BY <1>2 DEF Named, AddString
  <2>4. /\ DOMAIN c = DOMAIN b
        /\ c.symbols = Append(b.symbols, s) /\ c.symbolAt = Bind(b.symbolAt, a, N + 1)
        /\ SameButStrings(c, b)
    BY <2>1, <2>2, <2>3 DEF CreateSymbol, EmptyBinary, SameButStrings
  <2> HIDE DEF c, s
  <2>5. /\ N \in Nat /\ DOMAIN b.symbols = 1 .. N /\ DOMAIN c.symbols = 1 .. N + 1
        /\ c.symbols \in Seq(ToSet(c.symbols))
    <3>1. N \in Nat /\ DOMAIN b.symbols = 1 .. N
      BY <2>1, LenProperties
    <3> DEFINE W == ToSet(b.symbols) \cup {s}
    <3>2. b.symbols \in Seq(W)
      <4>1. \A n \in 1 .. N : b.symbols[n] \in W
        BY <2>1, ElementOfSeq
      <4>2. b.symbols = [n \in 1 .. N |-> b.symbols[n]]
        BY <2>1, <3>1
      <4>3. [n \in 1 .. N |-> b.symbols[n]] \in Seq(W)
        BY <3>1, <4>1, IsASeq
      <4>4. QED
        BY <4>2, <4>3
    <3>3. s \in W
      OBVIOUS
    <3> HIDE DEF W
    <3>4. c.symbols \in Seq(W) /\ DOMAIN c.symbols = 1 .. N + 1 /\ Len(c.symbols) = N + 1
      BY <2>4, <3>1, <3>2, <3>3, OneLonger
    <3>5. c.symbols \in Seq(ToSet(c.symbols))
      <4>1. \A n \in 1 .. N + 1 : c.symbols[n] \in ToSet(c.symbols)
        BY <3>4 DEF ToSet
      <4>2. c.symbols = [n \in 1 .. N + 1 |-> c.symbols[n]]
        BY <3>4, LenProperties
      <4>3. [n \in 1 .. N + 1 |-> c.symbols[n]] \in Seq(ToSet(c.symbols))
        BY <3>1, <4>1, IsASeq
      <4>4. QED
        BY <4>2, <4>3
    <3>6. QED
      BY <3>1, <3>4, <3>5
  <2>6. /\ DOMAIN c.symbolAt = {a} \cup DOMAIN b.symbolAt
        /\ c.symbolAt = [k \in {a} \cup DOMAIN b.symbolAt |-> c.symbolAt[k]]
        /\ c.symbolAt[a] = N + 1
        /\ \A k \in DOMAIN b.symbolAt : k # a => c.symbolAt[k] = b.symbolAt[k]
    BY <2>4 DEF Bind
  <2>7. c.symbolAt \in [DOMAIN c.symbolAt -> DOMAIN c.symbols]
    <3>1. ASSUME NEW k \in DOMAIN c.symbolAt PROVE c.symbolAt[k] \in 1 .. N + 1
      <4>1. CASE k = a
        <5>1. N + 1 \in 1 .. N + 1
          BY <2>5
        <5>2. QED
          BY <2>6, <4>1, <5>1
      <4>2. CASE k # a
        <5>1. k \in DOMAIN b.symbolAt /\ b.symbolAt[k] \in 1 .. N
          BY <2>1, <2>5, <2>6, <3>1, <4>2
        <5>2. c.symbolAt[k] \in 1 .. N
          BY <2>6, <4>2, <5>1
        <5>3. QED
          BY <2>5, <5>2
      <4>3. QED
        BY <4>1, <4>2
    <3>2. QED
      BY <2>5, <2>6, <3>1
  <2>8. IsCode(c)
    BY <2>1, <2>4, <2>5, <2>7 DEF IsCode, SameButStrings
  <2>9. ASSUME NEW x, Named(b, x) \/ x = a PROVE Named(c, x)
    <3>1. x \in DOMAIN c.symbolAt
      BY <2>6, <2>9 DEF Named, FindAt
    <3>2. c.symbolAt[x] \in 1 .. N + 1
      BY <2>5, <2>7, <3>1
    <3>3. QED
      BY <2>5, <3>1, <3>2 DEF Named, FindAt, Invalid
  <2>10. QED
    BY <1>2, <2>4, <2>8, <2>9 DEF c
<1>3. QED
  BY <1>1, <1>2

(* The loop over the strings, its rounds.                                  *)
Adding(b, list, N, g) ==
    g = [n \in 0 .. N |-> IF n = 0 THEN b ELSE AddString(g[n - 1], list[n])]

LEMMA AddingExists ==
    ASSUME NEW b, NEW list, NEW N \in Nat
    PROVE  \E g : Adding(b, list, N, g)
<1> DEFINE P == {n \in Nat : \E g : Adding(b, list, n, g)}
<1>1. 0 \in P
  <2>1. Adding(b, list, 0, [n \in 0 .. 0 |-> b])
    BY DEF Adding
  <2>2. QED
    BY <2>1
<1>2. ASSUME NEW n \in 1 .. N, n - 1 \in P PROVE n \in P
  <2>1. PICK f : Adding(b, list, n - 1, f)
    BY <1>2
  <2> DEFINE g == [i \in 0 .. n |-> IF i = n THEN AddString(f[n - 1], list[n]) ELSE f[i]]
  <2>2. ASSUME NEW i \in 0 .. n
        PROVE  g[i] = IF i = 0 THEN b ELSE AddString(g[i - 1], list[i])
    <3>1. CASE i = 0
      <4>1. g[0] = f[0] /\ 0 \in 0 .. n - 1
        OBVIOUS
      <4>2. f[0] = b
        BY <2>1, <4>1 DEF Adding
      <4>3. QED
        BY <3>1, <4>1, <4>2
    <3>2. CASE i = n
      <4>1. g[i] = AddString(f[n - 1], list[n]) /\ g[i - 1] = f[n - 1]
        BY <3>2
      <4>2. QED
        BY <3>2, <4>1
    <3>3. CASE i # 0 /\ i # n
      <4>1. i \in 0 .. n - 1 /\ g[i] = f[i] /\ g[i - 1] = f[i - 1]
        BY <3>3
      <4>2. f[i] = AddString(f[i - 1], list[i])
        BY <2>1, <3>3, <4>1 DEF Adding
      <4> HIDE DEF g
      <4>3. QED
        BY <3>3, <4>1, <4>2
    <3>4. QED
      BY <3>1, <3>2, <3>3
  <2>3. g = [i \in 0 .. n |-> IF i = 0 THEN b ELSE AddString(g[i - 1], list[i])]
    BY <2>2
  <2>4. Adding(b, list, n, g)
    BY <2>3 DEF Adding
  <2>5. QED
    BY <2>4
<1> HIDE DEF P
<1>3. \A n \in 0 .. N : n \in P
  BY <1>1, <1>2, Induction
<1>4. N \in P
  BY <1>3
<1>5. QED
  BY <1>4 DEF P

(* After it every string has a symbol; and if all had one nothing changes. *)
LEMMA StringsAdded ==
    ASSUME NEW p, IsCode(p.binary), p.file \in Seq(Byte)
    PROVE  /\ IsCode(WithStrings(p)) /\ SameButStrings(WithStrings(p), p.binary)
           /\ \A a \in ToSet(FindStrings(p)) : Named(WithStrings(p), a)
           /\ (\A a \in ToSet(FindStrings(p)) : Named(p.binary, a)) => WithStrings(p) = p.binary
<1> DEFINE found == FindStrings(p)
           N == Len(found)
           b == p.binary
           g == CHOOSE f : Adding(b, found, N, f)
<1>1. found \in Seq(Nat)
  BY FoundAre
<1>2. N \in Nat /\ \A n \in 1 .. N : found[n] \in Nat /\ found[n] \in ToSet(found)
  BY <1>1, LenProperties, ElementOfSeq DEF ToSet
<1>3. WithStrings(p) = g[N]
  BY Zenon DEF WithStrings, Adding
<1>4. Adding(b, found, N, g)
  BY <1>2, AddingExists
<1> HIDE DEF g, found, N, b
<1>5. g[0] = b
  BY <1>2, <1>4 DEF Adding
<1>6. ASSUME NEW n \in 1 .. N PROVE g[n] = AddString(g[n - 1], found[n])
  <2>1. n \in 0 .. N /\ n # 0
    BY <1>2
  <2>2. g[n] = IF n = 0 THEN b ELSE AddString(g[n - 1], found[n])
    BY <1>4, <2>1, Zenon DEF Adding
  <2>3. QED
    BY <2>1, <2>2
<1> DEFINE P == {n \in 0 .. N : /\ IsCode(g[n]) /\ SameButStrings(g[n], b)
                                /\ \A i \in 1 .. n : Named(g[n], found[i])}
<1>7. \A n \in 0 .. N : n \in P
  <2>1. 0 \in P
    <3>1. 0 \in 0 .. N /\ \A i \in 1 .. 0 : FALSE
      BY <1>2
    <3>2. IsCode(b) /\ SameButStrings(b, b)
      BY DEF b, SameButStrings
    <3>3. QED
      BY <1>5, <3>1, <3>2
  <2>2. ASSUME NEW n \in 1 .. N, n - 1 \in P PROVE n \in P
    <3> DEFINE c == g[n - 1]
               d == g[n]
    <3>1. IsCode(c) /\ SameButStrings(c, b) /\ \A i \in 1 .. n - 1 : Named(c, found[i])
      BY <2>2
    <3>2. d = AddString(c, found[n]) /\ found[n] \in Nat
      BY <1>2, <1>6
    <3> HIDE DEF c, d
    <3>3. /\ IsCode(d) /\ SameButStrings(d, c) /\ Named(d, found[n])
          /\ \A x : Named(c, x) => Named(d, x)
      BY <3>1, <3>2, AddStringIs
    <3>4. SameButStrings(d, b)
      BY <3>1, <3>3 DEF SameButStrings
    <3>5. ASSUME NEW i \in 1 .. n PROVE Named(d, found[i])
      <4>1. i = n \/ i \in 1 .. n - 1
        OBVIOUS
      <4>2. QED
        BY <3>1, <3>3, <4>1
    <3>6. n \in 0 .. N
      BY <1>2
    <3>7. QED
      BY <3>3, <3>4, <3>5, <3>6 DEF d
  <2> HIDE DEF P
  <2>3. QED
    BY <1>2, <2>1, <2>2, Induction
<1>8. /\ IsCode(g[N]) /\ SameButStrings(g[N], b)
      /\ \A i \in 1 .. N : Named(g[N], found[i])
  <2>1. N \in 0 .. N
    BY <1>2
  <2>2. QED
    BY <1>7, <2>1
<1> HIDE DEF P
<1>9. \A a \in ToSet(found) : Named(g[N], a)
  <2>1. \A a \in ToSet(found) : \E i \in 1 .. N : a = found[i]
    BY <1>1, LenProperties DEF ToSet, N
  <2>2. QED
    BY <1>8, <2>1
<1>10. ASSUME \A a \in ToSet(found) : Named(b, a) PROVE g[N] = b
  <2> DEFINE Q == {n \in 0 .. N : g[n] = b}
  <2>1. 0 \in Q
    BY <1>2, <1>5
  <2>2. ASSUME NEW n \in 1 .. N, n - 1 \in Q PROVE n \in Q
    <3>1. g[n] = AddString(b, found[n])
      BY <1>6, <2>2
    <3>2. Named(b, found[n]) /\ found[n] \in Nat
      BY <1>2, <1>10
    <3>3. IsCode(b)
      BY DEF b
    <3>4. AddString(b, found[n]) = b
      BY <3>2, <3>3, AddStringIs
    <3>5. n \in 0 .. N
      BY <1>2
    <3>6. QED
      BY <3>1, <3>4, <3>5
  <2> HIDE DEF Q
  <2>3. \A n \in 0 .. N : n \in Q
    BY <1>2, <2>1, <2>2, Induction
  <2>4. N \in 0 .. N
    BY <1>2
  <2>5. N \in Q
    BY <2>3, <2>4
  <2>6. QED
    BY <2>5 DEF Q
<1>11. QED
  BY <1>3, <1>8, <1>9, <1>10 DEF b, found

-----------------------------------------------------------------------------
(* The invariant, of a binary and what was analysed of it.                 *)
RefTypes(p, log, n) ==
    /\ DOMAIN p = {"binary", "file"} /\ p.file \in Seq(Byte) /\ IsCode(p.binary)
    /\ p.binary.xrefsTo \in Lists(Nat, IrXref) /\ p.binary.xrefsFrom \in Lists(Nat, IrXref)
    /\ log \in Seq(DOMAIN p.binary.functions) /\ n \in Nat

(* What is known of a function are the calls to it since its own analysis, *)
(* and its own calls from then on.                                         *)
CallersAre(b, log) ==
    \A id \in DOMAIN b.functions :
        /\ b.functions[id].callsIn = Incoming(b, log, id)
        /\ b.functions[id].callsOut =
              IF id \in ToSet(log) THEN CallsOf(b, b.functions[id]) ELSE << >>

(* With one string registered all that are found have a symbol.            *)
StringsAre(p) ==
    (\E id \in DOMAIN p.binary.symbols : p.binary.symbols[id].type = "String") =>
        \A a \in ToSet(FindStrings(p)) : Named(p.binary, a)

(* Each operand that reads data is there as often as was analysed, in both *)
(* maps, at the address of an instruction.                                 *)
AimedAt(b, a) == {k \in 1 .. Len(DataOperands(b)) : DataOperands(b)[k].to = a}

IsRead(b, x) ==
    /\ x.type = "DataRead" /\ x \in ToSet(Held(b.xrefsFrom, x.from))
    /\ \E n \in DOMAIN b.insns : x.from = b.insns[n].address

DataAre(b, n) ==
    /\ \A a \in DOMAIN b.xrefsTo : AtData(b, a)
    /\ \A a : /\ Len(Held(b.xrefsTo, a)) = n * Cardinality(AimedAt(b, a))
              /\ \A x \in ToSet(Held(b.xrefsTo, a)) : IsRead(b, x)

(* A binary as it was loaded.                                              *)
LEMMA NothingAnalyzed ==
    ASSUME NEW p, DOMAIN p = {"binary", "file"}, p.file \in Seq(Byte), IsDisassembled(p.binary)
    PROVE  /\ RefTypes(p, << >>, 0) /\ CallersAre(p.binary, << >>) /\ StringsAre(p)
           /\ DataAre(p.binary, 0)
<1> DEFINE b == p.binary
<1>1. /\ IsCode(b) /\ b.xrefsTo = << >> /\ b.xrefsFrom = << >>
      /\ \A f \in ToSet(b.functions) : f.callsIn = << >> /\ f.callsOut = << >>
      /\ \A s \in ToSet(b.symbols) : s.type # "String"
  BY DEF IsDisassembled
<1>2. RefTypes(p, << >>, 0)
  <2>1. << >> \in Lists(Nat, IrXref)
    <3>1. DOMAIN << >> = {} /\ << >> \in [{} -> Seq(IrXref)]
      OBVIOUS
    <3>2. QED
      BY <3>1, ListsAre
  <2>2. << >> \in Seq(DOMAIN b.functions)
    BY EmptySeq
  <2>3. QED
    BY <1>1, <2>1, <2>2 DEF RefTypes
<1>3. CallersAre(b, << >>)
  <2>1. ASSUME NEW id \in DOMAIN b.functions
        PROVE  b.functions[id].callsIn = << >> /\ b.functions[id].callsOut = << >>
    <3>1. b.functions[id] \in ToSet(b.functions)
      BY DEF ToSet
    <3>2. QED
      BY <1>1, <3>1
  <2>2. ASSUME NEW id PROVE Incoming(b, << >>, id) = << >>
    <3> DEFINE s == Since(id, << >>)
    <3>1. << >> \in Seq({}) /\ ToSet(<< >>) = {}
      BY EmptySeq DEF ToSet
    <3>2. s \in Seq({})
      BY <3>1, SinceIs
    <3> HIDE DEF s
    <3>3. s = << >>
      <4>1. Len(s) \in Nat /\ \A n \in 1 .. Len(s) : s[n] \in {}
        BY <3>2, LenProperties, ElementOfSeq
      <4>2. Len(s) = 0
        <5>1. 1 \notin 1 .. Len(s)
          BY <4>1
        <5>2. QED
          BY <4>1, <5>1
      <4>3. QED
        BY <3>2, <4>2, EmptySeq
    <3>4. Incoming(b, << >>, id) = FlattenSeq([n \in 1 .. Len(s) |-> CallsFrom(b, s[n], id)])
      BY DEF Incoming, s
    <3>5. [n \in 1 .. Len(s) |-> CallsFrom(b, s[n], id)] = << >>
      <4>1. Len(s) = 0
        BY <3>3
      <4>2. 1 .. 0 = {}
        OBVIOUS
      <4>3. QED
        BY <4>1, <4>2
    <3>6. QED
      BY <3>4, <3>5, FlattenNone
  <2>3. ToSet(<< >>) = {}
    BY DEF ToSet
  <2> HIDE DEF b
  <2>4. QED
    BY <2>1, <2>2, <2>3 DEF CallersAre
<1>4. StringsAre(p)
  <2>1. \A id \in DOMAIN b.symbols : b.symbols[id] \in ToSet(b.symbols)
    BY DEF ToSet
  <2>2. QED
    BY <1>1, <2>1 DEF StringsAre
<1>5. DataAre(b, 0)
  <2>1. DOMAIN b.xrefsTo = {} /\ \A a : Held(b.xrefsTo, a) = << >>
    BY <1>1 DEF Held
  <2>2. ToSet(<< >>) = {} /\ Len(<< >>) = 0
    BY DEF ToSet
  <2>3. ASSUME NEW a PROVE 0 * Cardinality(AimedAt(b, a)) = 0
    <3> DEFINE L == Len(DataOperands(b))
    <3>1. L \in Nat
      BY <1>1, DataOperandsAre, LenProperties
    <3>2. IsFiniteSet(1 .. L)
      BY <3>1, FS_Interval
    <3>3. IsFiniteSet(AimedAt(b, a))
      BY <3>2, FS_Subset DEF AimedAt
    <3>4. Cardinality(AimedAt(b, a)) \in Nat
      BY <3>3, FS_CardinalityType
    <3>5. QED
      BY <3>4
  <2> HIDE DEF b
  <2>4. QED
    BY <2>1, <2>2, <2>3 DEF DataAre
<1>6. QED
  BY <1>2, <1>3, <1>4, <1>5 DEF b

-----------------------------------------------------------------------------
(* What was found of data in one binary is found in another with its code. *)
LEMMA SameDataAre ==
    ASSUME NEW b, IsCode(b), NEW c, SameCode(c, b), NEW n,
           c.xrefsTo = b.xrefsTo, c.xrefsFrom = b.xrefsFrom, DataAre(b, n)
    PROVE  DataAre(c, n)
<1>1. DataOperands(c) = DataOperands(b)
  BY SameData
<1>2. \A a : AimedAt(c, a) = AimedAt(b, a)
  BY <1>1 DEF AimedAt
<1>3. c.sections = b.sections /\ c.sectionAt = b.sectionAt /\ c.insns = b.insns
  BY DEF SameCode
<1>4. \A a : AtData(c, a) = AtData(b, a)
  BY <1>3 DEF AtData
<1>5. \A x : IsRead(c, x) = IsRead(b, x)
  BY <1>3 DEF IsRead
<1>6. QED
  BY <1>2, <1>4, <1>5 DEF DataAre

(* One function more is analysed.                                          *)
LEMMA CallsAdded ==
    ASSUME NEW b, IsCode(b), NEW log \in Seq(DOMAIN b.functions), CallersAre(b, log),
           NEW id \in DOMAIN b.functions
    PROVE  LET c == WithCalls(b, id)
           IN  /\ IsCode(c) /\ SameCode(c, b) /\ CallersAre(c, Append(log, id))
               /\ c.symbols = b.symbols /\ c.symbolAt = b.symbolAt
               /\ c.xrefsTo = b.xrefsTo /\ c.xrefsFrom = b.xrefsFrom
<1> DEFINE c == WithCalls(b, id)
           calls == CallsOf(b, b.functions[id])
           Before(k) == IF k = id THEN << >> ELSE b.functions[k].callsIn
           After(k) == [b.functions[k] EXCEPT !.callsIn = Before(k) \o CallsTo(calls, k),
                                              !.callsOut = IF k = id THEN calls ELSE @]
           N == Len(b.functions)
<1>1. c = [b EXCEPT !.functions = [k \in DOMAIN b.functions |-> After(k)]]
  BY Zenon DEF WithCalls
<1>2. /\ DOMAIN b = DOMAIN EmptyBinary(0) /\ b.functions \in Seq(ToSet(b.functions))
      /\ b.functionAt \in [DOMAIN b.functionAt -> DOMAIN b.functions]
  BY CodeIs
<1>3. N \in Nat /\ DOMAIN b.functions = 1 .. N
  BY <1>2, LenProperties
<1> HIDE DEF c, After
<1>4. /\ DOMAIN c = DOMAIN b /\ c.functions = [k \in DOMAIN b.functions |-> After(k)]
      /\ c.insns = b.insns /\ c.blocks = b.blocks /\ c.sections = b.sections
      /\ c.sectionAt = b.sectionAt /\ c.functionAt = b.functionAt
      /\ c.symbols = b.symbols /\ c.symbolAt = b.symbolAt
      /\ c.xrefsTo = b.xrefsTo /\ c.xrefsFrom = b.xrefsFrom
  BY <1>1, <1>2 DEF EmptyBinary
<1>5. ASSUME NEW k \in DOMAIN b.functions
      PROVE  /\ DOMAIN After(k) = DOMAIN NewFunction /\ After(k).blocks = b.functions[k].blocks
             /\ After(k).callsIn = Before(k) \o CallsTo(calls, k)
             /\ After(k).callsOut = IF k = id THEN calls ELSE b.functions[k].callsOut
  <2>1. DOMAIN b.functions[k] = DOMAIN NewFunction
    BY FunctionOf
  <2> HIDE DEF Before, calls
  <2>2. QED
    BY <2>1 DEF After, NewFunction
<1>6. ASSUME NEW k \in DOMAIN b.functions
      PROVE  /\ calls \in Seq(IrXref) /\ Before(k) \in Seq(IrXref)
             /\ CallsTo(calls, k) \in Seq(IrXref) /\ CallsTo(calls, k) = CallsFrom(b, id, k)
  <2>1. CallsTo(calls, k) = CallsFrom(b, id, k)
    BY DEF CallsFrom
  <2>2. calls \in Seq(IrXref) /\ CallsFrom(b, id, k) \in Seq(IrXref)
    BY CallsFromAre
  <2>3. Before(k) \in Seq(IrXref)
    BY FunctionOf, EmptySeq
  <2>4. QED
    BY <2>1, <2>2, <2>3
<1> HIDE DEF calls, Before
<1>7. /\ DOMAIN c.functions = DOMAIN b.functions /\ c.functions \in Seq(ToSet(c.functions))
      /\ Len(c.functions) = N
      /\ \A k \in DOMAIN b.functions : c.functions[k] = After(k)
  <2>1. DOMAIN c.functions = 1 .. N /\ \A k \in 1 .. N : c.functions[k] = After(k)
    BY <1>3, <1>4
  <2>2. \A k \in 1 .. N : c.functions[k] \in ToSet(c.functions)
    BY <2>1 DEF ToSet
  <2>3. c.functions = [k \in 1 .. N |-> c.functions[k]]
    BY <1>3, <1>4
  <2>4. [k \in 1 .. N |-> c.functions[k]] \in Seq(ToSet(c.functions))
    BY <1>3, <2>2, IsASeq
  <2>5. c.functions \in Seq(ToSet(c.functions))
    BY <2>3, <2>4
  <2>6. Len(c.functions) = N
    BY <1>3, <2>1, <2>5, LenProperties
  <2>7. QED
    BY <1>3, <2>1, <2>5, <2>6
<1>8. IsCode(c)
  <2>1. ASSUME NEW f \in ToSet(c.functions)
        PROVE  /\ DOMAIN f = DOMAIN NewFunction /\ f.blocks \in Seq(Nat)
               /\ f.callsIn \in Seq(IrXref) /\ f.callsOut \in Seq(IrXref)
    <3>1. PICK k \in DOMAIN b.functions : f = After(k)
      BY <1>7 DEF ToSet
    <3>2. b.functions[k].blocks \in Seq(Nat) /\ b.functions[k].callsOut \in Seq(IrXref)
      BY FunctionOf
    <3>3. Before(k) \o CallsTo(calls, k) \in Seq(IrXref)
      BY <1>6, SetOfConcat
    <3>4. QED
      BY <1>5, <1>6, <3>1, <3>2, <3>3
  <2>2. c.functionAt \in [DOMAIN c.functionAt -> DOMAIN c.functions]
    BY <1>2, <1>4, <1>7
  <2>3. QED
    BY <1>2, <1>4, <1>7, <2>1, <2>2 DEF IsCode
<1>9. SameCode(c, b)
  BY <1>4, <1>5, <1>7 DEF SameCode, N
<1>10. CallersAre(c, Append(log, id))
  <2> SUFFICES ASSUME NEW k \in DOMAIN c.functions
      PROVE  /\ c.functions[k].callsIn = Incoming(c, Append(log, id), k)
             /\ c.functions[k].callsOut =
                   IF k \in ToSet(Append(log, id)) THEN CallsOf(c, c.functions[k]) ELSE << >>
    BY Zenon DEF CallersAre
  <2>1. k \in DOMAIN b.functions
    BY <1>7
  <2>2. /\ k = id => Incoming(c, Append(log, id), k) = CallsFrom(b, id, k)
        /\ k # id => Incoming(c, Append(log, id), k) = Incoming(b, log, k) \o CallsFrom(b, id, k)
    BY <1>9, IncomingGrows
  <2>3. CallsOf(c, c.functions[k]) = CallsOf(b, b.functions[k])
    BY <1>9, <2>1, SameCalls
  <2>4. ToSet(Append(log, id)) = ToSet(log) \cup {id}
    BY SetOfAppended
  <2>5. /\ b.functions[k].callsIn = Incoming(b, log, k)
        /\ b.functions[k].callsOut = IF k \in ToSet(log) THEN CallsOf(b, b.functions[k]) ELSE << >>
    BY <2>1 DEF CallersAre
  <2>6. c.functions[k].callsIn = Incoming(c, Append(log, id), k)
    <3>1. c.functions[k].callsIn = Before(k) \o CallsFrom(b, id, k)
      BY <1>5, <1>6, <1>7, <2>1
    <3>2. CASE k = id
      <4>1. Before(k) = << >>
        BY <3>2 DEF Before
      <4>2. << >> \o CallsFrom(b, id, k) = CallsFrom(b, id, k)
        BY <1>6, <2>1, ConcatEmptySeq
      <4>3. QED
        BY <2>2, <3>1, <3>2, <4>1, <4>2
    <3>3. CASE k # id
      <4>1. Before(k) = Incoming(b, log, k)
        BY <2>5, <3>3 DEF Before
      <4>2. QED
        BY <2>2, <3>1, <3>3, <4>1
    <3>4. QED
      BY <3>2, <3>3
  <2>7. c.functions[k].callsOut =
          IF k \in ToSet(Append(log, id)) THEN CallsOf(c, c.functions[k]) ELSE << >>
    <3>1. c.functions[k].callsOut = IF k = id THEN calls ELSE b.functions[k].callsOut
      BY <1>5, <1>7, <2>1
    <3>2. CASE k = id
      <4>1. calls = CallsOf(b, b.functions[k])
        BY <3>2 DEF calls
      <4>2. QED
        BY <2>3, <2>4, <3>1, <3>2, <4>1
    <3>3. CASE k # id
      BY <2>3, <2>4, <2>5, <3>1, <3>3
    <3>4. QED
      BY <3>2, <3>3
  <2>8. QED
    BY <2>6, <2>7
<1>11. QED
  BY <1>4, <1>8, <1>9, <1>10 DEF c

(* All references to data are analysed once more.                          *)
LEMMA DataAdded ==
    ASSUME NEW b, IsCode(b), b.xrefsTo \in Lists(Nat, IrXref), b.xrefsFrom \in Lists(Nat, IrXref),
           NEW n \in Nat, DataAre(b, n)
    PROVE  LET c == RegisterXrefs(b, DataRefs(b))
           IN  /\ IsCode(c) /\ SameCode(c, b) /\ DataAre(c, n + 1)
               /\ c.functions = b.functions /\ c.symbols = b.symbols /\ c.symbolAt = b.symbolAt
               /\ c.xrefsTo \in Lists(Nat, IrXref) /\ c.xrefsFrom \in Lists(Nat, IrXref)
<1> DEFINE c == RegisterXrefs(b, DataRefs(b))
           xs == DataRefs(b)
           L == Len(DataOperands(b))
           to == PushAll(b.xrefsTo, xs, To(xs))
           from == PushAll(b.xrefsFrom, xs, From(xs))
<1>1. DOMAIN b = DOMAIN EmptyBinary(0)
  BY CodeIs
<1>2. c = [b EXCEPT !.xrefsTo = to, !.xrefsFrom = from]
  BY DEF RegisterXrefs
<1> HIDE DEF c, to, from
<1>3. /\ DOMAIN c = DOMAIN b /\ c.xrefsTo = to /\ c.xrefsFrom = from
      /\ c.insns = b.insns /\ c.blocks = b.blocks /\ c.sections = b.sections
      /\ c.sectionAt = b.sectionAt /\ c.functionAt = b.functionAt
      /\ c.functions = b.functions /\ c.symbols = b.symbols /\ c.symbolAt = b.symbolAt
  BY <1>1, <1>2 DEF EmptyBinary
<1>4. IsCode(c) /\ SameCode(c, b)
  BY <1>1, <1>3 DEF IsCode, SameCode
<1>5. /\ xs \in Seq(IrXref) /\ Len(xs) = L /\ L \in Nat
      /\ \A k \in 1 .. L : /\ xs[k].type = "DataRead" /\ xs[k].from = DataOperands(b)[k].from
                           /\ xs[k].to = DataOperands(b)[k].to
  <2>1. L \in Nat
    BY DataOperandsAre, LenProperties
  <2>2. QED
    BY <2>1, DataRefsAre
<1>6. \A k \in 1 .. L : xs[k] \in IrXref /\ xs[k].from \in Nat /\ xs[k].to \in Nat
  <2>1. \A k \in 1 .. L : xs[k] \in IrXref
    BY <1>5, ElementOfSeq
  <2>2. \A x \in IrXref : x.from \in Nat /\ x.to \in Nat
    BY DEF IrXref
  <2>3. QED
    BY <2>1, <2>2
<1>7. \A k \in 1 .. L : /\ DataOperands(b)[k] \in ToSet(DataOperands(b))
                        /\ AtData(b, xs[k].to)
                        /\ \E m \in DOMAIN b.insns : xs[k].from = b.insns[m].address
  <2> SUFFICES ASSUME NEW k \in 1 .. L
      PROVE  /\ DataOperands(b)[k] \in ToSet(DataOperands(b))
             /\ AtData(b, xs[k].to)
             /\ \E m \in DOMAIN b.insns : xs[k].from = b.insns[m].address
    OBVIOUS
  <2> DEFINE o == DataOperands(b)[k]
  <2>1. o \in ToSet(DataOperands(b))
    BY DataOperandsAre, LenProperties DEF ToSet
  <2>2. AtData(b, o.to) /\ \E m \in DOMAIN b.insns : IsOperandOf(o, "memory", b.insns[m])
    BY <2>1, DataOperandsAre
  <2>3. xs[k].to = o.to /\ xs[k].from = o.from
    BY <1>5
  <2> HIDE DEF o, xs
  <2>4. QED
    BY <2>1, <2>2, <2>3 DEF IsOperandOf, o
<1> HIDE DEF xs, L
<1>8. /\ To(xs) \in [1 .. L -> SUBSET Nat] /\ From(xs) \in [1 .. L -> SUBSET Nat]
      /\ \A k \in 1 .. L : To(xs)[k] = {xs[k].to} /\ From(xs)[k] = {xs[k].from}
  BY <1>5, <1>6 DEF To, From
<1>9. /\ to \in Lists(Nat, IrXref) /\ Pushed(b.xrefsTo, xs, To(xs), L, to)
      /\ from \in Lists(Nat, IrXref) /\ Pushed(b.xrefsFrom, xs, From(xs), L, from)
  BY <1>5, <1>8, AllPushed DEF to, from
<1>10. \A a : With(To(xs), a, L) = AimedAt(b, a)
  <2>1. \A k \in 1 .. L : To(xs)[k] = {DataOperands(b)[k].to}
    BY <1>5, <1>8
  <2>2. QED
    BY <2>1 DEF With, AimedAt, L
<1>11. ASSUME NEW a \in DOMAIN c.xrefsTo PROVE AtData(c, a)
  <2>1. a \in DOMAIN b.xrefsTo \/ \E k \in 1 .. L : a \in To(xs)[k]
    BY <1>3, <1>9, <1>11 DEF Pushed
  <2>2. AtData(b, a)
    <3>1. CASE a \in DOMAIN b.xrefsTo
      BY <3>1 DEF DataAre
    <3>2. CASE \E k \in 1 .. L : a \in To(xs)[k]
      BY <1>7, <1>8, <3>2
    <3>3. QED
      BY <2>1, <3>1, <3>2
  <2>3. QED
    BY <1>3, <2>2 DEF AtData
<1>12. ASSUME NEW a PROVE Len(Held(c.xrefsTo, a)) = (n + 1) * Cardinality(AimedAt(c, a))
  <2> DEFINE size == Cardinality(AimedAt(b, a))
  <2>1. AimedAt(c, a) = AimedAt(b, a)
    <3>1. DataOperands(c) = DataOperands(b)
      BY <1>4, SameData
    <3>2. QED
      BY <3>1 DEF AimedAt
  <2>2. size \in Nat
    <3>1. IsFiniteSet(1 .. L)
      BY <1>5, FS_Interval
    <3>2. IsFiniteSet(AimedAt(b, a))
      BY <3>1, FS_Subset DEF AimedAt, L
    <3>3. QED
      BY <3>2, FS_CardinalityType
  <2>3. Len(Held(b.xrefsTo, a)) = n * size
    BY DEF DataAre
  <2>4. Len(Held(c.xrefsTo, a)) = Len(Held(b.xrefsTo, a)) + size
    BY <1>3, <1>9, <1>10 DEF Pushed
  <2> HIDE DEF size
  <2>5. n * size + size = (n + 1) * size
    BY <2>2
  <2>6. QED
    BY <2>1, <2>3, <2>4, <2>5 DEF size
<1>13. ASSUME NEW a, NEW x \in ToSet(Held(c.xrefsTo, a)) PROVE IsRead(c, x)
  <2>1. \A k : /\ ToSet(Held(from, k)) =
                     ToSet(Held(b.xrefsFrom, k)) \cup {xs[m] : m \in With(From(xs), k, L)}
               /\ ToSet(Held(to, k)) =
                     ToSet(Held(b.xrefsTo, k)) \cup {xs[m] : m \in With(To(xs), k, L)}
    BY <1>9 DEF Pushed
  <2>2. CASE x \in ToSet(Held(b.xrefsTo, a))
    <3>1. IsRead(b, x)
      BY <2>2 DEF DataAre
    <3>2. QED
      BY <1>3, <2>1, <3>1 DEF IsRead
  <2>3. CASE \E m \in With(To(xs), a, L) : x = xs[m]
    <3>1. PICK m \in 1 .. L : x = xs[m]
      BY <2>3 DEF With
    <3>2. m \in With(From(xs), x.from, L)
      BY <1>8, <3>1 DEF With
    <3>3. x \in ToSet(Held(c.xrefsFrom, x.from))
      BY <1>3, <2>1, <3>1, <3>2
    <3>4. x.type = "DataRead" /\ \E k \in DOMAIN c.insns : x.from = c.insns[k].address
      BY <1>3, <1>5, <1>7, <3>1
    <3>5. QED
      BY <3>3, <3>4 DEF IsRead
  <2>4. QED
    BY <1>3, <1>13, <2>1, <2>2, <2>3
<1>14. DataAre(c, n + 1)
  BY <1>11, <1>12, <1>13 DEF DataAre
<1>15. QED
  BY <1>3, <1>4, <1>9, <1>14 DEF c

-----------------------------------------------------------------------------
(* The steps.                                                              *)
Holding(p, log, n) ==
    /\ RefTypes(p, log, n) /\ CallersAre(p.binary, log) /\ StringsAre(p) /\ DataAre(p.binary, n)

XrefInv == Holding(program, analyzed, refs)

LEMMA EmptyIsDisassembled ==
    /\ DOMAIN NoProgram = {"binary", "file"} /\ NoProgram.file \in Seq(Byte)
    /\ IsDisassembled(NoProgram.binary)
<1> DEFINE b == NoProgram.binary
<1>1. DOMAIN NoProgram = {"binary", "file"} /\ NoProgram.file = << >> /\ b = EmptyBinary(0)
  BY DEF NoProgram
<1> HIDE DEF b
<1>2. /\ DOMAIN b = DOMAIN EmptyBinary(0)
      /\ b.insns = << >> /\ b.blocks = << >> /\ b.sections = << >> /\ b.functions = << >>
      /\ b.symbols = << >> /\ b.sectionAt = << >> /\ b.functionAt = << >> /\ b.symbolAt = << >>
      /\ b.xrefsTo = << >> /\ b.xrefsFrom = << >>
  BY <1>1 DEF EmptyBinary
<1>3. \A V : << >> \in Seq(V)
  BY EmptySeq
<1>4. ToSet(<< >>) = {} /\ DOMAIN << >> = {} /\ << >> \in [{} -> {}]
  BY DEF ToSet
<1>5. IsCode(b)
  BY <1>2, <1>3, <1>4 DEF IsCode
<1>6. IsDisassembled(b)
  BY <1>2, <1>4, <1>5 DEF IsDisassembled
<1>7. QED
  BY <1>1, <1>3, <1>6 DEF b

LEMMA LoadProgramKeeps ==
    ASSUME NEW p \in Programs, LoadProgram(p)
    PROVE  XrefInv'
<1>1. program' = p /\ analyzed' = << >> /\ refs' = 0
  BY DEF LoadProgram
<1>2. DOMAIN p = {"binary", "file"} /\ p.file \in Seq(Byte) /\ IsDisassembled(p.binary)
  BY ProgramsAssumption DEF Byte
<1>3. Holding(p, << >>, 0)
  BY <1>2, NothingAnalyzed DEF Holding
<1>4. QED
  BY <1>1, <1>3 DEF XrefInv

LEMMA AnalyzeXrefsKeeps ==
    ASSUME XrefInv, NEW id \in DOMAIN Known.functions, AnalyzeXrefs(id)
    PROVE  XrefInv'
<1> DEFINE p == program
           q == [p EXCEPT !.binary = WithCalls(@, id)]
           b == p.binary
           c == WithCalls(b, id)
           log == Append(analyzed, id)
<1>1. program' = q /\ analyzed' = log /\ refs' = refs
  BY DEF AnalyzeXrefs
<1>2. /\ DOMAIN p = {"binary", "file"} /\ p.file \in Seq(Byte) /\ IsCode(b)
      /\ b.xrefsTo \in Lists(Nat, IrXref) /\ b.xrefsFrom \in Lists(Nat, IrXref)
      /\ analyzed \in Seq(DOMAIN b.functions) /\ refs \in Nat
      /\ CallersAre(b, analyzed) /\ StringsAre(p) /\ DataAre(b, refs)
  BY DEF XrefInv, Holding, RefTypes
<1>3. id \in DOMAIN b.functions
  BY DEF Known
<1> HIDE DEF c, p, b
<1>4. q.binary = c /\ q.file = p.file /\ DOMAIN q = {"binary", "file"}
  BY <1>2 DEF c, b
<1>5. /\ IsCode(c) /\ SameCode(c, b) /\ CallersAre(c, log)
      /\ c.symbols = b.symbols /\ c.symbolAt = b.symbolAt
      /\ c.xrefsTo = b.xrefsTo /\ c.xrefsFrom = b.xrefsFrom
  BY <1>2, <1>3, CallsAdded DEF c
<1> HIDE DEF q
<1>6. RefTypes(q, log, refs)
  <2>1. log \in Seq(DOMAIN c.functions)
    BY <1>2, <1>3, <1>5, AppendProperties DEF SameCode
  <2>2. QED
    BY <1>2, <1>4, <1>5, <2>1 DEF RefTypes
<1>7. StringsAre(q)
  <2>1. FindStrings(q) = FindStrings(p)
    BY <1>4, <1>5, SameStrings DEF b, SameCode
  <2>2. \A a : Named(c, a) = Named(b, a)
    BY <1>5 DEF Named
  <2>3. QED
    BY <1>2, <1>4, <1>5, <2>1, <2>2 DEF StringsAre, b
<1>8. DataAre(c, refs)
  BY <1>2, <1>5, SameDataAre
<1>9. Holding(q, log, refs)
  BY <1>4, <1>5, <1>6, <1>7, <1>8 DEF Holding
<1>10. QED
  BY <1>1, <1>9 DEF XrefInv

LEMMA SameCallersAre ==
    ASSUME NEW b, IsCode(b), NEW c, SameCode(c, b), c.functions = b.functions,
           NEW log \in Seq(DOMAIN b.functions), CallersAre(b, log)
    PROVE  CallersAre(c, log)
<1>1. \A caller \in DOMAIN b.functions :
         CallsOf(c, c.functions[caller]) = CallsOf(b, b.functions[caller])
  BY SameCalls
<1>2. ASSUME NEW id PROVE Incoming(c, log, id) = Incoming(b, log, id)
  <2> DEFINE s == Since(id, log)
  <2>1. s \in Seq(DOMAIN b.functions)
    BY SinceIs
  <2>2. \A n \in 1 .. Len(s) : s[n] \in DOMAIN b.functions
    BY <2>1, LenProperties, ElementOfSeq
  <2>3. \A n \in 1 .. Len(s) : CallsFrom(c, s[n], id) = CallsFrom(b, s[n], id)
    BY <1>1, <2>2 DEF CallsFrom
  <2>4. [n \in 1 .. Len(s) |-> CallsFrom(c, s[n], id)] = [n \in 1 .. Len(s) |-> CallsFrom(b, s[n], id)]
    BY <2>3
  <2>5. QED
    BY <2>4 DEF Incoming
<1>3. QED
  BY <1>1, <1>2 DEF CallersAre

LEMMA AnalyzeAllXrefsKeeps ==
    ASSUME XrefInv, AnalyzeAllXrefs
    PROVE  XrefInv'
<1> DEFINE p == program
           q == [p EXCEPT !.binary = RegisterXrefs(@, DataRefs(@))]
           b == p.binary
           c == RegisterXrefs(b, DataRefs(b))
<1>1. program' = q /\ analyzed' = analyzed /\ refs' = refs + 1
  BY DEF AnalyzeAllXrefs
<1>2. /\ DOMAIN p = {"binary", "file"} /\ p.file \in Seq(Byte) /\ IsCode(b)
      /\ b.xrefsTo \in Lists(Nat, IrXref) /\ b.xrefsFrom \in Lists(Nat, IrXref)
      /\ analyzed \in Seq(DOMAIN b.functions) /\ refs \in Nat
      /\ CallersAre(b, analyzed) /\ StringsAre(p) /\ DataAre(b, refs)
  BY DEF XrefInv, Holding, RefTypes
<1> HIDE DEF c, p, b
<1>3. q.binary = c /\ q.file = p.file /\ DOMAIN q = {"binary", "file"}
  BY <1>2 DEF c, b
<1>4. /\ IsCode(c) /\ SameCode(c, b) /\ DataAre(c, refs + 1)
      /\ c.functions = b.functions /\ c.symbols = b.symbols /\ c.symbolAt = b.symbolAt
      /\ c.xrefsTo \in Lists(Nat, IrXref) /\ c.xrefsFrom \in Lists(Nat, IrXref)
  BY <1>2, DataAdded DEF c
<1> HIDE DEF q
<1>5. RefTypes(q, analyzed, refs + 1)
  BY <1>2, <1>3, <1>4 DEF RefTypes
<1>6. CallersAre(c, analyzed)
  BY <1>2, <1>4, SameCallersAre
<1>7. StringsAre(q)
  <2>1. FindStrings(q) = FindStrings(p)
    BY <1>3, <1>4, SameStrings DEF b, SameCode
  <2>2. \A a : Named(c, a) = Named(b, a)
    BY <1>4 DEF Named
  <2>3. QED
    BY <1>2, <1>3, <1>4, <2>1, <2>2 DEF StringsAre, b
<1>8. Holding(q, analyzed, refs + 1)
  BY <1>3, <1>4, <1>5, <1>6, <1>7 DEF Holding
<1>9. QED
  BY <1>1, <1>8 DEF XrefInv

LEMMA RegisterStringSymbolsKeeps ==
    ASSUME XrefInv, RegisterStringSymbols
    PROVE  XrefInv'
<1> DEFINE p == program
           q == [p EXCEPT !.binary = WithStrings(p)]
           b == p.binary
           c == WithStrings(p)
<1>1. program' = q /\ analyzed' = analyzed /\ refs' = refs
  BY DEF RegisterStringSymbols
<1>2. /\ DOMAIN p = {"binary", "file"} /\ p.file \in Seq(Byte) /\ IsCode(b)
      /\ b.xrefsTo \in Lists(Nat, IrXref) /\ b.xrefsFrom \in Lists(Nat, IrXref)
      /\ analyzed \in Seq(DOMAIN b.functions) /\ refs \in Nat
      /\ CallersAre(b, analyzed) /\ StringsAre(p) /\ DataAre(b, refs)
  BY DEF XrefInv, Holding, RefTypes
<1> HIDE DEF c, p
<1>3. q.binary = c /\ q.file = p.file /\ DOMAIN q = {"binary", "file"}
  BY <1>2 DEF c
<1>4. IsCode(c) /\ SameButStrings(c, b) /\ \A a \in ToSet(FindStrings(p)) : Named(c, a)
  BY <1>2, StringsAdded DEF c
<1> HIDE DEF q
<1>5. /\ SameCode(c, b) /\ c.functions = b.functions /\ c.sections = b.sections
      /\ c.xrefsTo = b.xrefsTo /\ c.xrefsFrom = b.xrefsFrom
  BY <1>4 DEF SameButStrings, SameCode
<1>6. RefTypes(q, analyzed, refs)
  BY <1>2, <1>3, <1>4, <1>5 DEF RefTypes
<1>7. StringsAre(q)
  <2>1. FindStrings(q) = FindStrings(p)
    BY <1>3, <1>5, SameStrings
  <2>2. QED
    BY <1>3, <1>4, <2>1 DEF StringsAre
<1> HIDE DEF b
<1>8. CallersAre(c, analyzed)
  BY <1>2, <1>4, <1>5, SameCallersAre
<1>9. DataAre(c, refs)
  BY <1>2, <1>4, <1>5, SameDataAre
<1>10. Holding(q, analyzed, refs)
  BY <1>3, <1>6, <1>7, <1>8, <1>9 DEF Holding
<1>11. QED
  BY <1>1, <1>10 DEF XrefInv

(* Each operation keeps it, and the other parts leave a program as it is.  *)
LEMMA XrefInitially == XrefInit => XrefInv
<1>1. Holding(NoProgram, << >>, 0)
  BY EmptyIsDisassembled, NothingAnalyzed DEF Holding
<1>2. QED
  BY <1>1 DEF XrefInit, XrefInv

LEMMA XrefKeeps ==
    ASSUME XrefInv, [Next]_vars
    PROVE  XrefInv'
<1>1. XrefNext \/ UNCHANGED xrefVars
  BY Zenon DEF Next, vars
<1>2. CASE XrefNext
  <2>1. ASSUME NEW p \in Programs, LoadProgram(p) PROVE XrefInv'
    BY <2>1, LoadProgramKeeps
  <2>2. ASSUME NEW id \in DOMAIN Known.functions, AnalyzeXrefs(id) PROVE XrefInv'
    BY <2>2, AnalyzeXrefsKeeps
  <2>3. CASE AnalyzeAllXrefs
    BY <2>3, AnalyzeAllXrefsKeeps
  <2>4. CASE RegisterStringSymbols
    BY <2>4, RegisterStringSymbolsKeeps
  <2>5. QED
    BY <1>2, <2>1, <2>2, <2>3, <2>4 DEF XrefNext
<1>3. CASE UNCHANGED xrefVars
  BY <1>3 DEF xrefVars, XrefInv
<1>4. QED
  BY <1>1, <1>2, <1>3

LEMMA XrefInvIs ==
    ASSUME XrefInv
    PROVE  /\ IsCode(Known) /\ program.file \in Seq(Byte)
           /\ Known.xrefsTo \in Lists(Nat, IrXref) /\ Known.xrefsFrom \in Lists(Nat, IrXref)
           /\ analyzed \in Seq(DOMAIN Known.functions) /\ refs \in Nat
           /\ CallersAre(Known, analyzed) /\ StringsAre(program) /\ DataAre(Known, refs)
BY DEF XrefInv, Holding, RefTypes, Known

LEMMA CallsFollow ==
    ASSUME XrefInv
    PROVE  CallsFollowCode
<1> SUFFICES ASSUME NEW id \in DOMAIN Known.functions
    PROVE  LET times == {n \in DOMAIN analyzed : analyzed[n] = id}
               since == SubSeq(analyzed, Max(times \cup {1}), Len(analyzed))
               calls(caller) == CallsTo(CallsOf(Known, Known.functions[caller]), id)
               known == ToSet(Known.functions[id].callsIn)
           IN  /\ times # {} => Known.functions[id].callsOut = CallsOf(Known, Known.functions[id])
               /\ \A x \in known : \E caller \in ToSet(analyzed) : x \in ToSet(calls(caller))
               /\ \A caller \in ToSet(since) : ToSet(calls(caller)) \subseteq known
  BY Zenon DEF CallsFollowCode
<1> DEFINE times == {n \in DOMAIN analyzed : analyzed[n] = id}
           since == SubSeq(analyzed, Max(times \cup {1}), Len(analyzed))
           calls(caller) == CallsTo(CallsOf(Known, Known.functions[caller]), id)
           f == Known.functions[id]
           known == ToSet(f.callsIn)
<1>1. /\ IsCode(Known) /\ analyzed \in Seq(DOMAIN Known.functions)
      /\ CallersAre(Known, analyzed)
  BY XrefInvIs
<1>2. /\ f.callsIn = Incoming(Known, analyzed, id)
      /\ f.callsOut = IF id \in ToSet(analyzed) THEN CallsOf(Known, f) ELSE << >>
  BY <1>1 DEF CallersAre
<1>3. since = Since(id, analyzed)
  BY Zenon DEF Since
<1>4. times # {} => id \in ToSet(analyzed)
  BY DEF ToSet
<1>5. \A caller : calls(caller) = CallsFrom(Known, caller, id)
  BY Zenon DEF CallsFrom
<1> HIDE DEF times, since, calls, f
<1>6. \A x \in known : \E caller \in ToSet(analyzed) : x \in ToSet(calls(caller))
  BY <1>1, <1>2, <1>5, IncomingIs
<1>7. \A caller \in ToSet(since) : ToSet(calls(caller)) \subseteq known
  BY <1>1, <1>2, <1>3, <1>5, IncomingIs
<1>8. times # {} => f.callsOut = CallsOf(Known, f)
  BY <1>2, <1>4
<1> HIDE DEF known
<1>9. QED
  BY <1>6, <1>7, <1>8, Zenon DEF times, since, calls, f, known

LEMMA StringsNamed ==
    ASSUME XrefInv
    PROVE  StringsAreNamedOnce
<1> SUFFICES ASSUME \E id \in DOMAIN Known.symbols : Known.symbols[id].type = "String"
    PROVE  /\ \A k \in DOMAIN Known.sections : LET s == Known.sections[k] IN
                ~s.executable /\ s.fileOffset + s.rawSize <= Len(program.file) =>
                   \A i \in 1 .. s.rawSize - MinLength + 1 :
                      (/\ \A j \in i .. i + MinLength - 1 : Bytes(program.file, s)[j] = "text"
                       /\ i = 1 \/ Bytes(program.file, s)[i - 1] # "text")
                      => FindAt(Known.symbolAt, s.virtualAddr + i - 1) # Invalid
           /\ WithStrings(program) = Known
  BY Zenon DEF StringsAreNamedOnce
<1>1. IsCode(program.binary) /\ program.file \in Seq(Byte) /\ StringsAre(program)
  BY XrefInvIs DEF Known
<1>2. \A a \in ToSet(FindStrings(program)) : Named(program.binary, a)
  BY <1>1 DEF StringsAre, Known
<1>3. WithStrings(program) = Known
  BY <1>1, <1>2, StringsAdded DEF Known
<1>4. ASSUME NEW k \in DOMAIN Known.sections, InFile(program, Known.sections[k]),
             NEW i \in 1 .. Known.sections[k].rawSize - MinLength + 1,
             \A j \in i .. i + MinLength - 1 : Bytes(program.file, Known.sections[k])[j] = "text",
             i = 1 \/ Bytes(program.file, Known.sections[k])[i - 1] # "text"
      PROVE  FindAt(Known.symbolAt, Known.sections[k].virtualAddr + i - 1) # Invalid
  <2> DEFINE s == Known.sections[k]
             bytes == Bytes(program.file, s)
  <2>1. /\ bytes \in Seq(Byte) /\ Len(bytes) = s.rawSize
        /\ Begins(bytes, i) => s.virtualAddr + (i - 1) \in ToSet(FindStrings(program))
    BY <1>1, <1>4, FoundAre DEF Known
  <2>2. s.virtualAddr \in Nat /\ s.rawSize \in Nat
    <3>1. s \in IrSection
      BY <1>1, CodeIs, ElementOfSeq DEF Known
    <3>2. QED
      BY <3>1 DEF IrSection
  <2>3. i \in 1 .. s.rawSize - MinLength + 1 /\ s.virtualAddr + (i - 1) = s.virtualAddr + i - 1
    BY <2>2, ProgramsAssumption
  <2>4. Begins(bytes, i)
    BY <1>4, <2>1, <2>3 DEF Begins
  <2>5. Named(program.binary, s.virtualAddr + (i - 1))
    BY <1>2, <2>1, <2>4
  <2> HIDE DEF s
  <2>6. QED
    BY <2>3, <2>5 DEF Named, Known, s
<1>5. QED
  BY <1>3, <1>4, Zenon DEF InFile

LEMMA BothAnalysersAgree ==
    ASSUME XrefInv
    PROVE  AnalysersAgree
<1>1. /\ IsCode(Known) /\ refs \in Nat /\ CallersAre(Known, analyzed) /\ DataAre(Known, refs)
  BY XrefInvIs
<1>2. ASSUME NEW id \in DOMAIN Known.functions, NEW x \in ToSet(Known.functions[id].callsOut)
      PROVE  \E n \in DOMAIN Known.insns : [type |-> x.type, from |-> x.from, to |-> x.to]
                                           \in ToSet(InstructionRefs(Known.insns[n]))
  <2> DEFINE f == Known.functions[id]
  <2>1. f.callsOut = IF id \in ToSet(analyzed) THEN CallsOf(Known, f) ELSE << >>
    BY <1>1 DEF CallersAre
  <2>2. f.blocks \in Seq(Nat)
    BY <1>1, FunctionOf
  <2> HIDE DEF f
  <2>3. \A y \in ToSet(CallsOf(Known, f)) : \E n \in DOMAIN Known.insns : Shown(y, Known.insns[n])
    BY <1>1, <2>2, CallsAre
  <2>4. ToSet(<< >>) = {} /\ x \in ToSet(f.callsOut)
    BY DEF ToSet, f
  <2>5. \E n \in DOMAIN Known.insns : Shown(x, Known.insns[n])
    BY <2>1, <2>3, <2>4
  <2>6. QED
    BY <2>5, Zenon DEF Shown
<1>3. ASSUME NEW a \in DOMAIN Known.xrefsTo
      PROVE  /\ ~Known.sections[FindAt(Known.sectionAt, a)].executable
             /\ Len(Known.xrefsTo[a]) = refs * Cardinality({k \in DOMAIN DataRefs(Known) :
                                                                DataRefs(Known)[k].to = a})
             /\ ToSet(Known.xrefsTo[a]) \subseteq UNION {ToSet(l) : l \in Range(Known.xrefsFrom)}
             /\ \A x \in ToSet(Known.xrefsTo[a]) :
                  \E n \in DOMAIN Known.insns : ValidXref(x, Known.insns[n])
  <2>1. AtData(Known, a)
    BY <1>1 DEF DataAre
  <2>2. Held(Known.xrefsTo, a) = Known.xrefsTo[a]
    BY DEF Held
  <2>3. /\ Len(Known.xrefsTo[a]) = refs * Cardinality(AimedAt(Known, a))
        /\ \A x \in ToSet(Known.xrefsTo[a]) : IsRead(Known, x)
    BY <1>1, <2>2 DEF DataAre
  <2>4. {k \in DOMAIN DataRefs(Known) : DataRefs(Known)[k].to = a} = AimedAt(Known, a)
    <3>1. /\ DOMAIN DataRefs(Known) = 1 .. Len(DataOperands(Known))
          /\ \A k \in 1 .. Len(DataOperands(Known)) : DataRefs(Known)[k].to = DataOperands(Known)[k].to
      BY <1>1, DataRefsAre
    <3>2. QED
      BY <3>1 DEF AimedAt
  <2>5. ASSUME NEW x \in ToSet(Known.xrefsTo[a])
        PROVE  /\ x \in UNION {ToSet(l) : l \in Range(Known.xrefsFrom)}
               /\ \E n \in DOMAIN Known.insns : ValidXref(x, Known.insns[n])
    <3>1. /\ x.type = "DataRead" /\ x \in ToSet(Held(Known.xrefsFrom, x.from))
          /\ \E n \in DOMAIN Known.insns : x.from = Known.insns[n].address
      BY <2>3 DEF IsRead
    <3>2. x.from \in DOMAIN Known.xrefsFrom
      <4>1. ToSet(<< >>) = {}
        BY DEF ToSet
      <4>2. QED
        BY <3>1, <4>1 DEF Held
    <3>3. Held(Known.xrefsFrom, x.from) = Known.xrefsFrom[x.from]
      BY <3>2 DEF Held
    <3>4. Known.xrefsFrom[x.from] \in Range(Known.xrefsFrom)
      BY <3>2 DEF Range
    <3>5. x \in UNION {ToSet(l) : l \in Range(Known.xrefsFrom)}
      BY <3>1, <3>3, <3>4
    <3>6. \E n \in DOMAIN Known.insns : ValidXref(x, Known.insns[n])
      BY <3>1 DEF ValidXref
    <3>7. QED
      BY <3>5, <3>6
  <2>6. QED
    BY <2>1, <2>3, <2>4, <2>5 DEF AtData
<1>4. QED
  BY <1>2, <1>3, Zenon DEF AnalysersAgree

(* What each function knows of its callers, which strings have a symbol    *)
(* and what refers to data is, for any binary, what the order of analyses  *)
(* leaves: the inductive invariant of XRefAnalyzer and StringFinder.       *)
THEOREM ReferencesInductive == Spec => []XrefInv
<1>1. Init => XrefInv
  BY XrefInitially DEF Init
<1>2. XrefInv /\ [Next]_vars => XrefInv'
  BY XrefKeeps
<1>3. QED
  BY <1>1, <1>2, PTL DEF Spec

(* Whatever is analysed in whatever order, the calls recorded follow the   *)
(* code, strings are named once, and the two analysers agree.              *)
THEOREM ReferencesSound == Spec => []ReferencesFollowCode
<1>1. XrefInv => ReferencesFollowCode
  BY CallsFollow, StringsNamed, BothAnalysersAgree DEF ReferencesFollowCode
<1>2. QED
  BY <1>1, ReferencesInductive, PTL

=============================================================================
